---- MODULE Spec2Model ----
(***************************************************************************)
(* The executor manager of the Ballista scheduler                          *)
(* (ballista/rust/scheduler/src/state/executor_manager.rs): executor       *)
(* registration, the heartbeat cache, and the slot ledger kept in the      *)
(* Slots keyspace of the state backend, with reserve_slots and             *)
(* cancel_reservations running under the Slots "global" lock.              *)
(*                                                                         *)
(* Every await of the code (a backend get/put/put_txn, a lock              *)
(* acquisition, the connectivity check) is one step of the calling task;   *)
(* tasks interleave between steps.                                         *)
(***************************************************************************)
EXTENDS Integers, Sequences, FiniteSets, TLC

\* ---------------------------------------------------------------- bounds
MaxSlots == 2       \* task_slots of the larger executor
MaxRequest == 3     \* largest n passed to reserve_slots
MaxCancel == 2      \* longest vector passed to cancel_reservations
MaxRegs == 2        \* register_executor calls begun in one behaviour
MaxTicks == 1       \* clock advances in one behaviour
MaxSleeps == 2      \* sleeps of the expiry task that advance the clock
MaxRemoveFailures == 1  \* remove_executor calls of the expiry task that fail
MaxTasks == 2       \* execute_shuffle_write calls in one behaviour
MaxLocks == 2       \* lock ids (keyspace, key) of the key-value store
TargetPartitions == 2   \* partitions of the final stage of the job
MaxAttempts == 1    \* retryable failures a task is rescheduled after
MaxLost == 1        \* executors removed while the job runs
StartTime == 100    \* unix seconds at the start of a behaviour
TickStep == 60      \* seconds per clock advance

\* ------------------------------------------------------ program constants
LivenessWindow == 60
DEFAULT_EXECUTOR_TIMEOUT_SECONDS == 60

Executors == {"e1", "e2"}
Callers == {"c1", "c2"}
NoCaller == "none"
NoValue == [absent |-> TRUE]    \* get() of a key never written: empty bytes
None == "None"

Min(a, b) == IF a <= b THEN a ELSE b

\* the task slots an executor has: part of its configuration
TaskSlots(e) == IF e = "e1" THEN MaxSlots ELSE 1

VARIABLES
    now,                  \* SystemTime::now(), unix seconds
    executorsKS,          \* backend keyspace Executors: id -> metadata
    heartbeatsKS,         \* backend keyspace Heartbeats: id -> heartbeat
    slotsKS,              \* backend keyspace Slots: id -> ExecutorData
    executor_metadata,    \* ExecutorManager.executor_metadata (cache)
    executors_heartbeat,  \* ExecutorManager.executors_heartbeat (cache)
    lock,                 \* holder of the lock (Keyspace::Slots, "global")
    call,                 \* per task: the call in progress and its locals
    ret,                  \* what the step just taken returned to its
                          \* caller, if it was the return of a call
    held,                 \* reservations returned and not yet cancelled
    pushFresh,            \* executor registered with reserve = true, none
                          \* of its reservations cancelled since
    regs,                 \* register_executor calls begun
    listener,             \* ExecutorManager::init and the heartbeat
                          \* listener: position, Put events not yet
                          \* delivered, heartbeat saves in progress
    expiry,               \* the task spawned by expire_dead_executors:
                          \* position, executors still to remove, the
                          \* tombstones, ExecutorLost events posted
    abort_handles,        \* Executor.abort_handles: key -> AbortHandle
    task,                 \* per execute_shuffle_write call: its position,
                          \* arguments, abortable task and result
    stage_metrics,        \* calls whose metrics record_stage has recorded
    eret,                 \* what the executor call that just returned
                          \* returned
    kv_locks,             \* KeyValueStore locks: id -> holder
    acquire,              \* per acquire_locks call: position, the ids
                          \* asked for
    cluster_slots,        \* ClusterState: the AvailableTaskSlots of the
                          \* executors, in the order they are iterated
    cret,                 \* the ClusterState reservation call that
                          \* returned last, with the slots it found
    saved,                \* per executor id: the metadata record given
                          \* to the last save_executor_metadata
    mret,                 \* the metadata call that returned last
    policy,               \* SchedulerServer.policy
    graph,                \* the ExecutionGraph of the job: its status
                          \* and the state of the task of every partition
    poll,                 \* per executor: its poll_work call in progress
    pret,                 \* the poll_work call that returned last
    events,               \* the queue of the query stage event loop
    metrics,              \* the events the metrics collector recorded
    channel,              \* task statuses sent by the task launcher and
                          \* not yet received
    test,                 \* the position of the program that runs the job
    harness               \* the test case: the runner given to
                          \* SchedulerTest::new, the plan given to run

\* the state of the components modelled further down, which the calls of
\* the slot ledger leave alone
executorVars == <<abort_handles, task, stage_metrics, eret>>
lockVars == <<kv_locks, acquire>>
poolVars == <<cluster_slots, cret>>
metaVars == <<saved, mret>>
pollVars == <<policy, graph, poll, pret>>
jobVars == <<events, metrics, channel, test, harness>>
serverVars == <<metaVars, pollVars, jobVars>>
clusterVars == <<lockVars, poolVars, serverVars>>
extVars == <<listener, expiry, executorVars, clusterVars>>

vars == <<now, executorsKS, heartbeatsKS, slotsKS, executor_metadata,
          executors_heartbeat, lock, call, ret, held, pushFresh, regs,
          extVars>>

\* ------------------------------------------------------------ data types
\* ExecutorReservation::new_free
new_free(executor_id) == [executor_id |-> executor_id, job_id |-> None]

\* ExecutorData as stored under Slots/<id>
ExecutorData(total, available) ==
    [total_task_slots |-> total, available_task_slots |-> available]

\* protobuf::ExecutorHeartbeat (state: None)
ExecutorHeartbeat(executor_id, timestamp) ==
    [executor_id |-> executor_id, timestamp |-> timestamp]

\* ExecutorMetadata as built by the RegisterExecutor handler
ExecutorMetadata(id, task_slots) ==
    [id |-> id, host |-> "host", port |-> 8080, grpc_port |-> 9090,
     task_slots |-> task_slots]

\* metadata.into() and encode_protobuf: the protobuf::ExecutorMetadata of
\* a record, its u16 ports widened to u32 (every u16 is a u32, the value
\* is kept) and its task slots under specification
encode_metadata(metadata) ==
    [id |-> metadata.id, host |-> metadata.host,
     port |-> metadata.port, grpc_port |-> metadata.grpc_port,
     specification |-> [task_slots |-> metadata.task_slots]]

\* decode_into::<protobuf::ExecutorMetadata, ExecutorMetadata>: the ports
\* of the message narrowed to u16; the empty value of an absent key
\* carries no specification and gives no metadata
decode_metadata(value) ==
    IF value = NoValue THEN NoValue
    ELSE [id |-> value.id, host |-> value.host,
          port |-> value.port % (2^16),
          grpc_port |-> value.grpc_port % (2^16),
          task_slots |-> value.specification.task_slots]

\* decode_into::<protobuf::ExecutorData, ExecutorData>: the empty value of
\* an absent key decodes to the default message, a ledger of zeros
decode_into(value) ==
    IF value = NoValue THEN ExecutorData(0, 0) ELSE value

\* number of reservations of the vector rs that name executor e
RECURSIVE CountFor(_, _)
CountFor(rs, e) ==
    IF rs = <<>> THEN 0
    ELSE (IF Head(rs).executor_id = e THEN 1 ELSE 0) + CountFor(Tail(rs), e)

\* n reservations naming e
RECURSIVE Repeat(_, _)
Repeat(e, n) == IF n = 0 THEN <<>> ELSE <<new_free(e)>> \o Repeat(e, n - 1)

RECURSIVE SumOver(_, _)
SumOver(f, S) ==
    IF S = {} THEN 0
    ELSE LET e == CHOOSE x \in S : TRUE IN f[e] + SumOver(f, S \ {e})

\* the orders in which a HashSet with the elements S can be iterated
Orders(S) ==
    {f \in [1..Cardinality(S) -> S] :
        \A i, j \in 1..Cardinality(S) : f[i] = f[j] => i = j}

SeqsUpTo(n) == UNION {[1..k -> {new_free(e) : e \in Executors}] : k \in 0..n}

\* ------------------------------------------------------------- the state
\* an empty txn_ops vector / an empty executor_slots map
NoOps == [e \in Executors |-> NoValue]

Idle ==
    [pc |-> "idle", n |-> 0, executor_id |-> None, reserve |-> FALSE,
     ts |-> 0, alive |-> {}, txn_ops |-> NoOps, reservations |-> <<>>]

\* the return of a call op(n): Ok(reservations), Ok(()) or Err
Return(op, n, status, reservations) ==
    [op |-> op, n |-> n, status |-> status, reservations |-> reservations]

NoResult == Return(None, 0, None, <<>>)

\* ExecutorManager::new: nothing scanned, no watch, no save in progress;
\* reflected collects the heartbeats the cache has held
ListenerNew ==
    [pc |-> "new", events |-> <<>>, saving |-> [c \in Callers |-> NoValue],
     reflected |-> {}]

\* the execute_shuffle_write calls of a behaviour, and the keys
\* (job_id, stage_id, partition) of the abort_handles map: one job, one
\* stage, two partitions; the calls are numbered in the order they are made
Tasks == 1..MaxTasks
Keys == {1, 2}

\* an execute_shuffle_write call not yet made
NotCalled ==
    [pc |-> "new", key |-> 0, plan |-> None, endless |-> FALSE,
     started |-> FALSE, aborted |-> FALSE, result |-> None]

\* no executor call has just returned
NoReturn == [op |-> None, arg |-> 0, value |-> None]

\* the lock ids of the store, numbered as sort_by_key orders them, and the
\* tasks that call acquire_locks
LockIds == 1..MaxLocks
Acquirers == {"a1", "a2"}
SingleHolder == "single"

\* no acquire_locks call in progress
NotAcquiring == [pc |-> "idle", ids |-> {}]

\* protobuf::AvailableTaskSlots
AvailableTaskSlots(executor_id, slots) ==
    [executor_id |-> executor_id, slots |-> slots]

\* TaskDistribution
TaskDistribution == {"Bias", "RoundRobin"}

\* no reservation call of the cluster state has returned
NoReservationCall ==
    [op |-> None, n |-> 0, distribution |-> None, before |-> <<>>,
     reservations |-> <<>>]

\* the expiry task as spawned: about to scan, nothing removed or posted
ExpiryNew ==
    [pc |-> "scan", queue |-> <<>>, dead |-> {},
     lost |-> [e \in Executors |-> 0], failures |-> 0]

\* the stages of the plan of the job: stage 1 feeds the final stage
Stages == {1, 2}
FinalStage == 2

\* the number of partitions, and so of tasks, of a stage
StagePartitions(stage) ==
    IF stage = FinalStage THEN TargetPartitions ELSE 1

\* the tasks of the job: <<stage, partition>>
TaskIds ==
    {<<stage, partition>> :
        stage \in Stages, partition \in 1..TargetPartitions} \
    {<<stage, partition>> \in Stages \X (1..TargetPartitions) :
        partition > StagePartitions(stage)}

Unscheduled == [state |-> "Unscheduled", executor_id |-> None, path |-> None]
Running(executor_id) ==
    [state |-> "Running", executor_id |-> executor_id, path |-> None]
Completed(executor_id, path) ==
    [state |-> "Completed", executor_id |-> executor_id, path |-> path]
FailedTask == [state |-> "Failed", executor_id |-> None, path |-> None]

\* no job was submitted
NoGraph ==
    [status |-> None, keyspace |-> None,
     tasks |-> [t \in TaskIds |-> Unscheduled],
     attempts |-> [t \in TaskIds |-> 0]]

\* the default task runner and the plan of test_plan()
DefaultHarness == [runner |-> "Successful", plan |-> "test_plan"]

\* no poll_work call of the executor is in progress
NotPolling ==
    [pc |-> "idle", metadata |-> NoValue, can_accept_task |-> FALSE,
     task_status |-> {}, ts |-> 0]

\* no poll_work call has returned
NoPollReturn ==
    [executor_id |-> None, status |-> None, metadata |-> NoValue,
     task |-> NoValue]

\* no metadata call has returned
NoMetadataCall == [op |-> None, manager |-> None, id |-> None,
                   value |-> NoValue]

\* the scheduler, the executor and the store as constructed
InitCore ==
    /\ now = StartTime
    /\ executorsKS = [e \in Executors |-> NoValue]
    /\ heartbeatsKS = [e \in Executors |-> NoValue]
    /\ slotsKS = [e \in Executors |-> NoValue]
    /\ executor_metadata = [e \in Executors |-> NoValue]
    /\ executors_heartbeat = [e \in Executors |-> NoValue]
    /\ lock = NoCaller
    /\ call = [c \in Callers |-> Idle]
    /\ ret = NoResult
    /\ held = [e \in Executors |-> 0]
    /\ pushFresh = [e \in Executors |-> FALSE]
    /\ regs = 0
    /\ listener = ListenerNew
    /\ expiry = ExpiryNew
    /\ abort_handles = [k \in Keys |-> NoValue]
    /\ task = [t \in Tasks |-> NotCalled]
    /\ stage_metrics = {}
    /\ eret = NoReturn
    /\ kv_locks = [id \in LockIds |-> NoCaller]
    /\ acquire = [a \in Acquirers |-> NotAcquiring]
    /\ saved = [e \in Executors |-> NoValue]
    /\ mret = NoMetadataCall
    /\ graph = NoGraph
    /\ poll = [e \in Executors |-> NotPolling]
    /\ pret = NoPollReturn
    /\ events = <<>>
    /\ metrics = {}
    /\ channel = <<>>
    /\ test = [pc |-> "new", task |-> NoValue, status |-> None]

\* no executor has task slots in the cluster state, no call has returned
Init ==
    /\ InitCore
    /\ cluster_slots = <<>>
    /\ cret = NoReservationCall
    /\ policy = "PullStaged"
    /\ harness = DefaultHarness

\* ------------------------------------------------------------ liveness
\* as get_alive_executors, but a timestamp equal to the threshold counts
get_alive_executors_Inclusive(last_seen_ts_threshold) ==
    {e \in Executors :
        /\ executors_heartbeat[e] # NoValue
        /\ executors_heartbeat[e].timestamp >= last_seen_ts_threshold}

\* ExecutorManager::get_alive_executors
get_alive_executors(last_seen_ts_threshold) ==
    {e \in Executors :
        /\ executors_heartbeat[e] # NoValue
        /\ executors_heartbeat[e].timestamp > last_seen_ts_threshold}

\* ExecutorManager::get_alive_executors_within_one_minute
get_alive_executors_within_one_minute ==
    LET last_seen_threshold ==
            IF now >= LivenessWindow THEN now - LivenessWindow ELSE 0
    IN get_alive_executors(last_seen_threshold)

\* ------------------------------------------------------------- the clock
Tick ==
    /\ now < StartTime + MaxTicks * TickStep
    /\ now' = now + TickStep
    /\ ret' = NoResult
    /\ UNCHANGED <<extVars, regs, executorsKS, heartbeatsKS, slotsKS, executor_metadata,
                   executors_heartbeat, lock, call, held, pushFresh>>

\* ExecutorManager::save_executor_heartbeat: put(Keyspace::Heartbeats, ..)
\* then the insert into the cache
save_executor_heartbeat(heartbeat) ==
    /\ heartbeatsKS' =
           [heartbeatsKS EXCEPT ![heartbeat.executor_id] = heartbeat]
    /\ executors_heartbeat' =
           [executors_heartbeat EXCEPT ![heartbeat.executor_id] = heartbeat]

\* the Heartbeat RPC: save_executor_heartbeat with timestamp = now
heart_beat_from_executor(e) ==
    /\ executors_heartbeat[e] # ExecutorHeartbeat(e, now)
    /\ save_executor_heartbeat(ExecutorHeartbeat(e, now))
    /\ ret' = NoResult
    /\ UNCHANGED <<extVars, regs, now, executorsKS, slotsKS, executor_metadata, lock, call,
                   held, pushFresh>>

\* ----------------------------------------------------- register_executor
\* test_scheduler_connectivity succeeded, current_ts is read, and
\* save_executor_metadata has put the metadata under Executors/<id>
RegSaveMetadata(c, e, reserve) ==
    /\ call[c].pc = "idle"
    /\ regs < MaxRegs
    /\ regs' = regs + 1
    /\ executorsKS' =
           [executorsKS EXCEPT
               ![e] = encode_metadata(ExecutorMetadata(e, TaskSlots(e)))]
    /\ call' = [call EXCEPT ![c] =
                   [Idle EXCEPT !.pc = "reg_hb", !.executor_id = e,
                                !.n = TaskSlots(e), !.reserve = reserve,
                                !.ts = now]]
    /\ ret' = NoResult
    /\ UNCHANGED <<extVars, now, heartbeatsKS, slotsKS, executor_metadata,
                   executors_heartbeat, lock, held, pushFresh>>

\* save_executor_heartbeat with the timestamp read at the start of the call
RegSaveHeartbeat(c) ==
    /\ call[c].pc = "reg_hb"
    /\ save_executor_heartbeat(
           ExecutorHeartbeat(call[c].executor_id, call[c].ts))
    /\ call' = [call EXCEPT ![c].pc = "reg_slots"]
    /\ ret' = NoResult
    /\ UNCHANGED <<extVars, regs, now, executorsKS, slotsKS, executor_metadata, lock, held,
                   pushFresh>>

\* as RegisteredData, but available_task_slots is not set to 0
RegisteredData_Keep(task_slots, reserve) ==
    ExecutorData(task_slots, task_slots)

\* lines 288-304: the ledger register_executor stores for a specification
\* with total_task_slots = available_task_slots = task_slots
RegisteredData(task_slots, reserve) ==
    IF reserve THEN ExecutorData(task_slots, 0)
    ELSE ExecutorData(task_slots, task_slots)

\* lines 292-305: the reservations register_executor returns
RegisteredReservations(e, task_slots, reserve) ==
    IF reserve THEN Repeat(e, task_slots) ELSE <<>>

\* as RegPutSlots, but a ledger already stored is kept
RegPutSlots_IfAbsent(c) ==
    LET e == call[c].executor_id
        rs == IF call[c].reserve THEN Repeat(e, call[c].n) ELSE <<>>
    IN /\ call[c].pc = "reg_slots"
       /\ slotsKS' = IF slotsKS[e] # NoValue THEN slotsKS
                     ELSE [slotsKS EXCEPT ![e] =
                              IF call[c].reserve
                              THEN ExecutorData(call[c].n, 0)
                              ELSE ExecutorData(call[c].n, call[c].n)]
       /\ ret' = Return("register", call[c].n, "Ok", rs)
       /\ held' = [held EXCEPT ![e] = @ + Len(rs)]
       /\ pushFresh' = [pushFresh EXCEPT ![e] = call[c].reserve]
       /\ call' = [call EXCEPT ![c] = Idle]
       /\ UNCHANGED <<extVars, regs, now, executorsKS, heartbeatsKS,
                      executor_metadata, executors_heartbeat, lock>>

\* put(Keyspace::Slots, executor_id, value) and return
RegPutSlots(c) ==
    LET e == call[c].executor_id
        rs == RegisteredReservations(e, call[c].n, call[c].reserve)
    IN /\ call[c].pc = "reg_slots"
       /\ slotsKS' = [slotsKS EXCEPT ![e] =
                         RegisteredData(call[c].n, call[c].reserve)]
       /\ ret' = Return("register", call[c].n, "Ok", rs)
       /\ held' = [held EXCEPT ![e] = @ + Len(rs)]
       /\ pushFresh' = [pushFresh EXCEPT ![e] = call[c].reserve]
       /\ call' = [call EXCEPT ![c] = Idle]
       /\ UNCHANGED <<extVars, regs, now, executorsKS, heartbeatsKS, executor_metadata,
                      executors_heartbeat, lock>>

\* save_executor_heartbeat or the put into Slots returned Err
RegisterFail(c) ==
    /\ call[c].pc \in {"reg_hb", "reg_slots"}
    /\ ret' = Return("register", call[c].n, "Err", <<>>)
    /\ call' = [call EXCEPT ![c] = Idle]
    /\ UNCHANGED <<extVars, regs, now, executorsKS, heartbeatsKS, slotsKS,
                   executor_metadata, executors_heartbeat, lock, held,
                   pushFresh>>

\* --------------------------------------------------------- reserve_slots
\* as LockFree, but the call goes on without waiting for the lock
LockFree_Always == TRUE

\* line 100: state.lock(Keyspace::Slots, "global").await returns once no
\* other task holds the lock
LockFree == lock = NoCaller

\* as Take, but not limited by what is still desired
Take_All(available_task_slots, desired) == available_task_slots

\* line 116: how many slots one executor gives to the request
Take(available_task_slots, desired) == Min(available_task_slots, desired)

\* as ReserveLoop, but only the first executor is visited
ReserveLoop_One(order, desired, txn_ops, reservations) ==
    IF order = <<>>
    THEN [txn_ops |-> txn_ops, reservations |-> reservations]
    ELSE LET executor_id == Head(order)
             data == decode_into(slotsKS[executor_id])
             take == Min(data.available_task_slots, desired)
         IN [txn_ops |-> [txn_ops EXCEPT ![executor_id] =
                             ExecutorData(data.total_task_slots,
                                          data.available_task_slots - take)],
             reservations |-> reservations \o Repeat(executor_id, take)]

\* lines 112-131: the loop over alive_executors, visited in the order
\* given, from the ledgers as the backend holds them
RECURSIVE ReserveLoop(_, _, _, _)
ReserveLoop(order, desired, txn_ops, reservations) ==
    IF order = <<>>
    THEN [txn_ops |-> txn_ops, reservations |-> reservations]
    ELSE LET executor_id == Head(order)
             data == decode_into(slotsKS[executor_id])
             take == Take(data.available_task_slots, desired)
             new_data == ExecutorData(data.total_task_slots,
                                      data.available_task_slots - take)
             ops == [txn_ops EXCEPT ![executor_id] = new_data]
             rs == reservations \o Repeat(executor_id, take)
         IN IF desired - take = 0
            THEN [txn_ops |-> ops, reservations |-> rs]
            ELSE ReserveLoop(Tail(order), desired - take, ops, rs)

\* state.lock(Keyspace::Slots, "global") is acquired, the alive set is read
\* and the loop reads the ledgers.  (A put of another task to one key falls
\* before or after the loop's get of that key, so the gets are one step.)
ReserveRead(c, n) ==
    LET alive_executors == get_alive_executors_within_one_minute
    IN /\ call[c].pc = "idle"
       /\ LockFree
       /\ lock' = c
       /\ \E order \in Orders(alive_executors) :
            LET loop == ReserveLoop(order, n, NoOps, <<>>)
            IN call' = [call EXCEPT ![c] =
                           [Idle EXCEPT !.pc = "rs_put", !.n = n,
                                        !.alive = alive_executors,
                                        !.txn_ops = loop.txn_ops,
                                        !.reservations = loop.reservations]]
       /\ ret' = NoResult
       /\ UNCHANGED <<extVars, regs, now, executorsKS, heartbeatsKS, slotsKS,
                      executor_metadata, executors_heartbeat, held,
                      pushFresh>>

\* StateBackendClient::put_txn: every op of the vector is written, in one
\* step
put_txn(ops) ==
    [e \in Executors |-> IF ops[e] # NoValue THEN ops[e] ELSE slotsKS[e]]

\* put_txn(txn_ops) succeeded: unlock and return Ok(reservations)
ReservePutTxn(c) ==
    /\ call[c].pc = "rs_put"
    /\ slotsKS' = put_txn(call[c].txn_ops)
    /\ lock' = NoCaller
    /\ ret' = Return("reserve", call[c].n, "Ok", call[c].reservations)
    /\ held' = [e \in Executors |->
                   held[e] + CountFor(call[c].reservations, e)]
    /\ call' = [call EXCEPT ![c] = Idle]
    /\ UNCHANGED <<extVars, regs, now, executorsKS, heartbeatsKS, executor_metadata,
                   executors_heartbeat, pushFresh>>

\* as ReserveFail, but the loop has put the ledger of one executor it took
\* slots from before the Err
ReserveFail_Partial(c) ==
    /\ call[c].pc = "rs_put"
    /\ \E e \in Executors :
          /\ call[c].txn_ops[e] # NoValue
          /\ slotsKS' = [slotsKS EXCEPT ![e] = call[c].txn_ops[e]]
    /\ lock' = NoCaller
    /\ ret' = Return("reserve", call[c].n, "Err", <<>>)
    /\ call' = [call EXCEPT ![c] = Idle]
    /\ UNCHANGED <<extVars, regs, now, executorsKS, heartbeatsKS,
                   executor_metadata, executors_heartbeat, held, pushFresh>>

\* the lock, a get, the decoding or put_txn returned Err: nothing is
\* written, the lock is released
ReserveFail(c) ==
    /\ call[c].pc \in {"idle", "rs_put"}
    /\ call[c].pc = "idle" => LockFree
    /\ lock' = NoCaller
    /\ ret' = Return("reserve", call[c].n, "Err", <<>>)
    /\ call' = [call EXCEPT ![c] = Idle]
    /\ UNCHANGED <<extVars, regs, now, executorsKS, heartbeatsKS, slotsKS,
                   executor_metadata, executors_heartbeat, held, pushFresh>>

\* --------------------------------------------------- cancel_reservations
\* the caller passes reservations it holds
Holds(reservations) ==
    \A e \in Executors : CountFor(reservations, e) <= held[e]

\* as Returned, but the entry already in executor_slots is not used: the
\* ledger is read from the backend for every reservation
Returned_Reread(executor_slots, executor_id) ==
    LET data == decode_into(slotsKS[executor_id])
    IN [executor_slots EXCEPT ![executor_id] =
           ExecutorData(data.total_task_slots,
                        data.available_task_slots + 1)]

\* lines 164-172: executor_slots after one more reservation
Returned(executor_slots, executor_id) ==
    LET data == IF executor_slots[executor_id] # NoValue
                THEN executor_slots[executor_id]
                ELSE decode_into(slotsKS[executor_id])
    IN [executor_slots EXCEPT ![executor_id] =
           ExecutorData(data.total_task_slots,
                        data.available_task_slots + 1)]

\* as CancelLoop, but only the first reservation is returned
CancelLoop_First(reservations, executor_slots) ==
    IF reservations = <<>> THEN executor_slots
    ELSE Returned(executor_slots, Head(reservations).executor_id)

\* lines 162-173: the loop over the reservations
RECURSIVE CancelLoop(_, _)
CancelLoop(reservations, executor_slots) ==
    IF reservations = <<>> THEN executor_slots
    ELSE CancelLoop(Tail(reservations),
                    Returned(executor_slots, Head(reservations).executor_id))

\* state.lock(Keyspace::Slots, "global") is acquired and the loop reads
\* the ledgers
CancelRead(c, reservations) ==
    /\ call[c].pc = "idle"
    /\ Holds(reservations)
    /\ LockFree
    /\ lock' = c
    /\ call' = [call EXCEPT ![c] =
                   [Idle EXCEPT !.pc = "cr_put",
                                !.n = Len(reservations),
                                !.reservations = reservations,
                                !.txn_ops = CancelLoop(reservations, NoOps)]]
    /\ ret' = NoResult
    /\ UNCHANGED <<extVars, regs, now, executorsKS, heartbeatsKS, slotsKS,
                   executor_metadata, executors_heartbeat, held, pushFresh>>

\* put_txn(txn_ops) succeeded: unlock and return Ok(())
CancelPutTxn(c) ==
    /\ call[c].pc = "cr_put"
    /\ slotsKS' = put_txn(call[c].txn_ops)
    /\ lock' = NoCaller
    /\ ret' = Return("cancel", call[c].n, "Ok", <<>>)
    /\ held' = [e \in Executors |->
                   held[e] - CountFor(call[c].reservations, e)]
    /\ pushFresh' = [e \in Executors |->
                        pushFresh[e] /\ CountFor(call[c].reservations, e) = 0]
    /\ call' = [call EXCEPT ![c] = Idle]
    /\ UNCHANGED <<extVars, regs, now, executorsKS, heartbeatsKS, executor_metadata,
                   executors_heartbeat>>

\* the lock, a get, the decoding, the encoding or put_txn returned Err:
\* nothing is written, the lock is released
CancelFail(c) ==
    /\ call[c].pc \in {"idle", "cr_put"}
    /\ call[c].pc = "idle" => LockFree
    /\ lock' = NoCaller
    /\ ret' = Return("cancel", call[c].n, "Err", <<>>)
    /\ call' = [call EXCEPT ![c] = Idle]
    /\ UNCHANGED <<extVars, regs, now, executorsKS, heartbeatsKS, slotsKS,
                   executor_metadata, executors_heartbeat, held, pushFresh>>

\* ------------------------------------------------------ specifications
RegisterSteps ==
    \E c \in Callers :
        \/ RegSaveHeartbeat(c)
        \/ RegPutSlots(c)
        \/ RegisterFail(c)

SlotSteps ==
    \E c \in Callers :
        \/ ReservePutTxn(c)
        \/ ReserveFail(c)
        \/ CancelPutTxn(c)
        \/ CancelFail(c)

\* every task may call at any time
Next ==
    \/ Tick
    \/ \E e \in Executors : heart_beat_from_executor(e)
    \/ \E c \in Callers, e \in Executors, reserve \in BOOLEAN :
          RegSaveMetadata(c, e, reserve)
    \/ RegisterSteps
    \/ \E c \in Callers, n \in 0..MaxRequest : ReserveRead(c, n)
    \/ \E c \in Callers, rs \in SeqsUpTo(MaxCancel) : CancelRead(c, rs)
    \/ SlotSteps

Spec == Init /\ [][Next]_vars

\* a register_executor call for e is in progress
Registering(e) ==
    \E c \in Callers : /\ call[c].pc \in {"reg_hb", "reg_slots"}
                       /\ call[c].executor_id = e

\* no reserve_slots or cancel_reservations call is in progress
AtRest == \A c \in Callers : call[c].pc \notin {"rs_put", "cr_put"}

\* no register_executor call is in progress
NoRegistration == \A e \in Executors : ~Registering(e)

\* no call that writes a ledger is in progress
Quiet == AtRest /\ NoRegistration

\* a register_executor call does not overlap another call that writes a
\* ledger (an executor may be registered again at any time between the
\* calls), and an executor sends heartbeats once its metadata is stored
NextSerial ==
    \/ Tick
    \/ \E e \in Executors :
          /\ executorsKS[e] # NoValue
          /\ heart_beat_from_executor(e)
    \/ \E c \in Callers, e \in Executors, reserve \in BOOLEAN :
          /\ Quiet
          /\ RegSaveMetadata(c, e, reserve)
    \/ RegisterSteps
    \/ \E c \in Callers, n \in 0..MaxRequest :
          /\ NoRegistration
          /\ ReserveRead(c, n)
    \/ \E c \in Callers, rs \in SeqsUpTo(MaxCancel) :
          /\ NoRegistration
          /\ CancelRead(c, rs)
    \/ SlotSteps

SpecSerial == Init /\ [][NextSerial]_vars

\* as NextSerial, and executors are registered before their slots are
\* reserved: an executor is registered again only while none of its
\* reservations is outstanding
NextSettled ==
    \/ Tick
    \/ \E e \in Executors :
          /\ executorsKS[e] # NoValue
          /\ heart_beat_from_executor(e)
    \/ \E c \in Callers, e \in Executors, reserve \in BOOLEAN :
          /\ Quiet
          /\ held[e] = 0
          /\ RegSaveMetadata(c, e, reserve)
    \/ RegisterSteps
    \/ \E c \in Callers, n \in 0..MaxRequest :
          /\ NoRegistration
          /\ ReserveRead(c, n)
    \/ \E c \in Callers, rs \in SeqsUpTo(MaxCancel) :
          /\ NoRegistration
          /\ CancelRead(c, rs)
    \/ SlotSteps

SpecSettled == Init /\ [][NextSettled]_vars

\* ----------------------------------------- the heartbeat cache and its feed
\* ExecutorManager::init, the ExecutorHeartbeatListener task and
\* save_executor_heartbeat taken await by await: the put into the Heartbeats
\* keyspace is one step, the insert into the cache a later one, and the
\* listener task inserts each Put event of the watch in a step of its own.

ledgerVars == <<executorsKS, slotsKS, executor_metadata, lock, call, held,
                pushFresh, regs>>

\* the cache after executors_heartbeat.insert(executor_id, heartbeat)
CacheInsert(cache, heartbeat) ==
    [cache EXCEPT ![heartbeat.executor_id] = heartbeat]

\* the watch on Keyspace::Heartbeats: a Put is an event of the watch when
\* the watch exists at the time of the Put
Publish(heartbeat) ==
    IF listener.pc = "watching" THEN Append(listener.events, heartbeat)
    ELSE listener.events

\* init_executor_heartbeats: scan(Keyspace::Heartbeats) and the insert of
\* every heartbeat found
init_executor_heartbeats ==
    /\ listener.pc = "new"
    /\ executors_heartbeat' =
           [e \in Executors |->
               IF heartbeatsKS[e] # NoValue THEN heartbeatsKS[e]
               ELSE executors_heartbeat[e]]
    /\ listener' =
           [listener EXCEPT
               !.pc = "scanned",
               !.reflected = @ \cup {heartbeatsKS[e] : e \in
                                 {x \in Executors : heartbeatsKS[x] # NoValue}}]
    /\ ret' = NoResult
    /\ UNCHANGED <<executorVars, clusterVars, now, heartbeatsKS, ledgerVars, expiry>>

\* ExecutorHeartbeatListener::start: state.watch(Keyspace::Heartbeats, "")
ListenerStart ==
    /\ listener.pc = "scanned"
    /\ listener' = [listener EXCEPT !.pc = "watching"]
    /\ ret' = NoResult
    /\ UNCHANGED <<executorVars, clusterVars, now, heartbeatsKS, executors_heartbeat, ledgerVars, expiry>>

\* the task spawned by start: the next Put event of the watch is inserted
ListenerInsert ==
    /\ listener.events # <<>>
    /\ executors_heartbeat' =
           CacheInsert(executors_heartbeat, Head(listener.events))
    /\ listener' =
           [listener EXCEPT !.events = Tail(@),
                            !.reflected = @ \cup {Head(listener.events)}]
    /\ ret' = NoResult
    /\ UNCHANGED <<executorVars, clusterVars, now, heartbeatsKS, ledgerVars, expiry>>

\* another scheduler of the cluster saves a heartbeat of e: the put into
\* the shared Heartbeats keyspace (its cache is not this scheduler's)
PeerSaveHeartbeat(e) ==
    /\ heartbeatsKS[e] # ExecutorHeartbeat(e, now)
    /\ heartbeatsKS' = [heartbeatsKS EXCEPT ![e] = ExecutorHeartbeat(e, now)]
    /\ listener' =
           [listener EXCEPT !.events = Publish(ExecutorHeartbeat(e, now))]
    /\ ret' = NoResult
    /\ UNCHANGED <<executorVars, clusterVars, now, executors_heartbeat, ledgerVars, expiry>>

\* save_executor_heartbeat of this scheduler, lines 341-343: the put
SaveHeartbeatPut(c, e) ==
    /\ listener.pc = "watching"
    /\ listener.saving[c] = NoValue
    /\ heartbeatsKS[e] # ExecutorHeartbeat(e, now)
    /\ heartbeatsKS' = [heartbeatsKS EXCEPT ![e] = ExecutorHeartbeat(e, now)]
    /\ listener' =
           [listener EXCEPT !.events = Publish(ExecutorHeartbeat(e, now)),
                            !.saving[c] = ExecutorHeartbeat(e, now)]
    /\ ret' = NoResult
    /\ UNCHANGED <<executorVars, clusterVars, now, executors_heartbeat, ledgerVars, expiry>>

\* save_executor_heartbeat, lines 345-347: the insert into the cache
SaveHeartbeatInsert(c) ==
    /\ listener.saving[c] # NoValue
    /\ executors_heartbeat' =
           CacheInsert(executors_heartbeat, listener.saving[c])
    /\ listener' =
           [listener EXCEPT !.saving[c] = NoValue,
                            !.reflected = @ \cup {listener.saving[c]}]
    /\ ret' = NoResult
    /\ UNCHANGED <<executorVars, clusterVars, now, heartbeatsKS, ledgerVars, expiry>>

NextHeartbeats ==
    \/ Tick
    \/ init_executor_heartbeats
    \/ ListenerStart
    \/ ListenerInsert
    \/ \E e \in Executors : PeerSaveHeartbeat(e)
    \/ \E c \in Callers, e \in Executors : SaveHeartbeatPut(c, e)
    \/ \E c \in Callers : SaveHeartbeatInsert(c)

SpecHeartbeats == Init /\ [][NextHeartbeats]_vars

\* ------------------------------------------------------- the expiry task
\* SchedulerServer::expire_dead_executors: the spawned loop, one step per
\* await.  The clock of this part advances while the task sleeps.

\* ExecutorManager::get_expired_executors: the executors of the heartbeat
\* cache, not yet removed, whose last heartbeat is more than the timeout old
get_expired_executors ==
    {e \in Executors \ expiry.dead :
        /\ executors_heartbeat[e] # NoValue
        /\ now - executors_heartbeat[e].timestamp >
               DEFAULT_EXECUTOR_TIMEOUT_SECONDS}

\* the loop goes on with the next expired executor, or sleeps
ExpiryAdvance(queue) == IF Tail(queue) = <<>> THEN "sleep" ELSE "remove"

\* line 251: the expired executors are collected
ExpiryScan ==
    /\ expiry.pc = "scan"
    /\ \E order \in Orders(get_expired_executors) :
           expiry' = [expiry EXCEPT
                         !.queue = order,
                         !.pc = IF order = <<>> THEN "sleep" ELSE "remove"]
    /\ ret' = NoResult
    /\ UNCHANGED <<executorVars, clusterVars, now, heartbeatsKS, executors_heartbeat, ledgerVars,
                   listener>>

\* ExecutorManager::remove_executor returned Ok: the executor is out of the
\* slot pool and the metadata cache, and its tombstone is stored
ExpiryRemove ==
    /\ expiry.pc = "remove"
    /\ LET executor_id == Head(expiry.queue)
       IN /\ slotsKS' = [slotsKS EXCEPT ![executor_id] = NoValue]
          /\ executor_metadata' =
                 [executor_metadata EXCEPT ![executor_id] = NoValue]
          /\ expiry' = [expiry EXCEPT !.dead = @ \cup {executor_id},
                                      !.pc = "post"]
    /\ ret' = NoResult
    /\ UNCHANGED <<executorVars, clusterVars, now, heartbeatsKS, executors_heartbeat, executorsKS, lock,
                   call, held, pushFresh, regs, listener>>

\* as ExpiryRemoveFail, but ExecutorLost is posted all the same
ExpiryRemoveFail_Posts ==
    /\ expiry.pc = "remove"
    /\ expiry.failures < MaxRemoveFailures
    /\ expiry' = [expiry EXCEPT !.failures = @ + 1,
                                !.lost[Head(expiry.queue)] = @ + 1,
                                !.queue = Tail(@),
                                !.pc = ExpiryAdvance(expiry.queue)]
    /\ ret' = NoResult
    /\ UNCHANGED <<executorVars, clusterVars, now, heartbeatsKS, executors_heartbeat, ledgerVars,
                   listener>>

\* lines 317-319 and 268-274: ExecutorManager::remove_executor returned
\* Err, SchedulerServer::remove_executor returns it before the post, the
\* loop logs it and goes on
ExpiryRemoveFail ==
    /\ expiry.pc = "remove"
    /\ expiry.failures < MaxRemoveFailures
    /\ expiry' = [expiry EXCEPT !.failures = @ + 1,
                                !.queue = Tail(@),
                                !.pc = ExpiryAdvance(expiry.queue)]
    /\ ret' = NoResult
    /\ UNCHANGED <<executorVars, clusterVars, now, heartbeatsKS, executors_heartbeat, ledgerVars,
                   listener>>

\* lines 321-326: post_event(ExecutorLost(executor_id, reason))
ExpiryPost ==
    /\ expiry.pc = "post"
    /\ expiry' = [expiry EXCEPT !.lost[Head(expiry.queue)] = @ + 1,
                                !.queue = Tail(@),
                                !.pc = ExpiryAdvance(expiry.queue)]
    /\ ret' = NoResult
    /\ UNCHANGED <<executorVars, clusterVars, now, heartbeatsKS, executors_heartbeat, ledgerVars,
                   listener>>

\* lines 303-304: sleep(DEFAULT_EXECUTOR_TIMEOUT_SECONDS)
ExpirySleep ==
    /\ expiry.pc = "sleep"
    /\ now' = IF now < StartTime +
                       MaxSleeps * DEFAULT_EXECUTOR_TIMEOUT_SECONDS
              THEN now + DEFAULT_EXECUTOR_TIMEOUT_SECONDS
              ELSE now
    /\ expiry' = [expiry EXCEPT !.pc = "scan"]
    /\ ret' = NoResult
    /\ UNCHANGED <<executorVars, clusterVars, heartbeatsKS, executors_heartbeat, ledgerVars, listener>>

ExpiryStep ==
    \/ ExpiryScan
    \/ ExpiryRemove
    \/ ExpiryRemoveFail
    \/ ExpiryPost
    \/ ExpirySleep

NextExpiry ==
    \/ ExpiryStep
    \/ \E e \in Executors \ expiry.dead : heart_beat_from_executor(e)

\* the spawned task is scheduled again whenever its await completes
SpecExpiry == Init /\ [][NextExpiry]_vars /\ WF_vars(ExpiryStep)

\* ----------------------------------------------------------- the executor
\* Executor::execute_shuffle_write and Executor::cancel_task
\* (ballista/rust/executor/src/executor.rs), one step per await.

schedulerVars == <<now, executorsKS, heartbeatsKS, slotsKS,
                   executor_metadata, executors_heartbeat, lock, call, ret,
                   held, pushFresh, regs, listener, expiry>>

Plans == {"ShuffleWriterExec", "CoalesceBatchesExec"}

\* the AbortHandle of the abortable task of call t
AbortHandle(t) == [task |-> t]

\* as IsShuffleWriter, but every plan is taken for a shuffle writer
IsShuffleWriter_Any(plan) == TRUE

\* line 118-120: plan.as_any().downcast_ref::<ShuffleWriterExec>() is Some
IsShuffleWriter(plan) == plan = "ShuffleWriterExec"

\* as AbortObserved, but the abort is never seen
AbortObserved_Never(t) == FALSE

\* Abortable::poll of the task of call t finds the abort flag set
AbortObserved(t) == task[t].aborted

\* lines 109-140: the call; a plan that is no ShuffleWriterExec returns Err
\* at line 134, otherwise the abortable task is made and the call waits
\* for the lock of abort_handles
execute_shuffle_write(t, part, plan, endless) ==
    /\ task[t].pc = "new"
    /\ IF IsShuffleWriter(plan)
       THEN /\ task' = [task EXCEPT ![t] =
                           [NotCalled EXCEPT !.pc = "created", !.key = part,
                                             !.plan = plan,
                                             !.endless = endless]]
            /\ eret' = NoReturn
       ELSE /\ task' = [task EXCEPT ![t] =
                           [NotCalled EXCEPT !.pc = "returned", !.key = part,
                                             !.plan = plan,
                                             !.result = "Err"]]
            /\ eret' = [op |-> "execute_shuffle_write", arg |-> t,
                        value |-> "Err"]
    /\ UNCHANGED <<clusterVars, schedulerVars, abort_handles, stage_metrics>>

\* lines 140-144: abort_handles.insert(key, abort_handle), and task.await
\* begins to poll the shuffle write
InsertHandle(t) ==
    /\ task[t].pc = "created"
    /\ abort_handles' = [abort_handles EXCEPT ![task[t].key] = AbortHandle(t)]
    /\ task' = [task EXCEPT ![t].pc = "running", ![t].started = TRUE]
    /\ eret' = NoReturn
    /\ UNCHANGED <<clusterVars, schedulerVars, stage_metrics>>

\* line 144: task.await is Ok(Ok(partitions)); the call waits for the lock
TaskCompleted(t) ==
    /\ task[t].pc = "running"
    /\ ~AbortObserved(t)
    /\ ~task[t].endless
    /\ task' = [task EXCEPT ![t].pc = "completed"]
    /\ eret' = NoReturn
    /\ UNCHANGED <<clusterVars, schedulerVars, abort_handles, stage_metrics>>

\* line 144: task.await is Ok(Err(e)), the second ? returns the error
TaskFailed(t) ==
    /\ task[t].pc = "running"
    /\ ~AbortObserved(t)
    /\ ~task[t].endless
    /\ task' = [task EXCEPT ![t].pc = "returned", ![t].result = "Err"]
    /\ eret' = [op |-> "execute_shuffle_write", arg |-> t, value |-> "Err"]
    /\ UNCHANGED <<clusterVars, schedulerVars, abort_handles, stage_metrics>>

\* line 144: task.await is Err(Aborted), the first ? returns the error
TaskAborted(t) ==
    /\ task[t].pc = "running"
    /\ AbortObserved(t)
    /\ task' = [task EXCEPT ![t].pc = "returned", ![t].result = "Err"]
    /\ eret' = [op |-> "execute_shuffle_write", arg |-> t, value |-> "Err"]
    /\ UNCHANGED <<clusterVars, schedulerVars, abort_handles, stage_metrics>>

\* as RemoveHandle, but the handle stays in the map
RemoveHandle_Keep(handles, key) == handles

\* lines 146-149: abort_handles.remove(&key)
RemoveHandle(handles, key) == [handles EXCEPT ![key] = NoValue]

\* lines 146-154: the handle is removed, record_stage, Ok(partitions)
TaskReturned(t) ==
    /\ task[t].pc = "completed"
    /\ abort_handles' = RemoveHandle(abort_handles, task[t].key)
    /\ stage_metrics' = stage_metrics \cup {t}
    /\ task' = [task EXCEPT ![t].pc = "returned", ![t].result = "Ok"]
    /\ eret' = [op |-> "execute_shuffle_write", arg |-> t, value |-> "Ok"]
    /\ UNCHANGED <<clusterVars, schedulerVars>>

\* as cancel_task, but the handle found is aborted and left in the map
cancel_task_Keep(part) ==
    /\ IF abort_handles[part] # NoValue
       THEN /\ task' = [task EXCEPT
                           ![abort_handles[part].task].aborted = TRUE]
            /\ eret' = [op |-> "cancel_task", arg |-> part, value |-> "true"]
       ELSE /\ task' = task
            /\ eret' = [op |-> "cancel_task", arg |-> part, value |-> "false"]
    /\ UNCHANGED <<clusterVars, schedulerVars, abort_handles, stage_metrics>>

\* lines 157-174: Executor::cancel_task
cancel_task(part) ==
    /\ IF abort_handles[part] # NoValue
       THEN /\ abort_handles' = RemoveHandle(abort_handles, part)
            /\ task' = [task EXCEPT
                           ![abort_handles[part].task].aborted = TRUE]
            /\ eret' = [op |-> "cancel_task", arg |-> part, value |-> "true"]
       ELSE /\ abort_handles' = abort_handles
            /\ task' = task
            /\ eret' = [op |-> "cancel_task", arg |-> part, value |-> "false"]
    /\ UNCHANGED <<clusterVars, schedulerVars, stage_metrics>>

\* the steps of call t once it is made
TaskStep(t) ==
    \/ InsertHandle(t)
    \/ TaskCompleted(t)
    \/ TaskFailed(t)
    \/ TaskAborted(t)
    \/ TaskReturned(t)

NextExecutor ==
    \/ \E t \in Tasks, part \in Keys, plan \in Plans, endless \in BOOLEAN :
          /\ endless => IsShuffleWriter(plan)
          /\ \A u \in Tasks : u < t => task[u].pc # "new"
          /\ execute_shuffle_write(t, part, plan, endless)
    \/ \E t \in Tasks : TaskStep(t)
    \/ \E part \in Keys : cancel_task(part)

SpecExecutor == Init /\ [][NextExecutor]_vars

\* the runtime polls a task whose await has completed or was aborted
SpecExecutorFair == SpecExecutor /\ \A t \in Tasks : WF_vars(TaskStep(t))

\* -------------------------------------------- KeyValueStore::acquire_locks
\* (ballista/scheduler/src/cluster/storage/mod.rs)

notLockVars == <<schedulerVars, executorVars, poolVars, serverVars>>

\* the locks of its ids that call a holds
LocksHeld(a) == {id \in acquire[a].ids : kv_locks[id] = a}

\* lines 83-89: the ids are sorted and the lock futures, one per id, are
\* handed to try_join_all, which polls all of them until each is ready
acquire_locks(a, ids) ==
    /\ acquire[a].pc = "idle"
    /\ ids # {}
    /\ acquire' = [acquire EXCEPT ![a] = [pc |-> "joining", ids |-> ids]]
    /\ UNCHANGED <<notLockVars, kv_locks>>

\* the ids whose lock future try_join_all polls: all that are not ready
Polled(a) == acquire[a].ids \ LocksHeld(a)

\* KeyValueStore::lock of one id becomes ready: the lock was free
LockReady(a, id) ==
    /\ acquire[a].pc = "joining"
    /\ id \in Polled(a)
    /\ kv_locks[id] = NoCaller
    /\ kv_locks' = [kv_locks EXCEPT ![id] = a]
    /\ UNCHANGED <<notLockVars, acquire>>

\* line 89: every future is ready, acquire_locks returns the guards
AcquireLocksReturned(a) ==
    /\ acquire[a].pc = "joining"
    /\ LocksHeld(a) = acquire[a].ids
    /\ acquire' = [acquire EXCEPT ![a].pc = "holding"]
    /\ UNCHANGED <<notLockVars, kv_locks>>

\* the caller drops the guards
ReleaseLocks(a) ==
    /\ acquire[a].pc = "holding"
    /\ kv_locks' = [id \in LockIds |->
                       IF kv_locks[id] = a THEN NoCaller ELSE kv_locks[id]]
    /\ acquire' = [acquire EXCEPT ![a] = NotAcquiring]
    /\ UNCHANGED notLockVars

\* a caller of KeyValueStore::lock takes one lock
SingleLock(id) ==
    /\ kv_locks[id] = NoCaller
    /\ kv_locks' = [kv_locks EXCEPT ![id] = SingleHolder]
    /\ UNCHANGED <<notLockVars, acquire>>

\* and releases it
SingleUnlock(id) ==
    /\ kv_locks[id] = SingleHolder
    /\ kv_locks' = [kv_locks EXCEPT ![id] = NoCaller]
    /\ UNCHANGED <<notLockVars, acquire>>

NextLocks ==
    \/ \E a \in Acquirers, ids \in SUBSET LockIds : acquire_locks(a, ids)
    \/ \E a \in Acquirers, id \in LockIds : LockReady(a, id)
    \/ \E a \in Acquirers : AcquireLocksReturned(a)
    \/ \E a \in Acquirers : ReleaseLocks(a)
    \/ \E id \in LockIds : SingleLock(id)
    \/ \E id \in LockIds : SingleUnlock(id)

SpecLocks == Init /\ [][NextLocks]_vars

\* ------------------------------------- the distributions of ClusterState
\* reserve_slots_bias and reserve_slots_round_robin
\* (ballista/scheduler/src/cluster/mod.rs) applied by the reservation
\* calls of the cluster state to the slots of the executors.

notPoolVars == <<schedulerVars, executorVars, lockVars, serverVars>>

\* the slots an iterator can yield: every executor at most once, in any
\* order, each with 0..MaxSlots free slots
Pools ==
    {p \in UNION {[1..k -> {AvailableTaskSlots(e, k2) :
                               e \in Executors, k2 \in 0..MaxSlots}] :
                     k \in 0..Cardinality(Executors)} :
        \A i, j \in 1..Len(p) : p[i].executor_id = p[j].executor_id => i = j}

InitDistribution ==
    /\ InitCore
    /\ cluster_slots \in Pools
    /\ cret = NoReservationCall
    /\ policy = "PullStaged"
    /\ harness = DefaultHarness

\* as BiasTake, but at most one slot is taken from an executor
BiasTake_One(slots, n) == Min(1, Min(slots, n))

\* line 248: let take = executor.slots.min(n)
BiasTake(slots, n) == Min(slots, n)

\* lines 246-259: the loop of reserve_slots_bias, at the i-th item of the
\* iterator
RECURSIVE BiasLoop(_, _, _, _)
BiasLoop(slots, i, n, reservations) ==
    IF n > 0 /\ i <= Len(slots)
    THEN LET executor == slots[i]
             take == BiasTake(executor.slots, n)
         IN BiasLoop([slots EXCEPT ![i].slots = @ - take], i + 1, n - take,
                     reservations \o Repeat(executor.executor_id, take))
    ELSE [slots |-> slots, reservations |-> reservations]

\* reserve_slots_bias(slots, n): the reservations, and the slots as the
\* function leaves them
reserve_slots_bias(slots, n) == BiasLoop(slots, 1, n, <<>>)

\* lines 272-284: the loop of reserve_slots_round_robin, at the i-th item
\* of the iterator
RECURSIVE RoundRobinLoop(_, _, _, _)
RoundRobinLoop(slots, i, n, reservations) ==
    IF n > 0 /\ i <= Len(slots)
    THEN LET executor == slots[i]
         IN IF executor.slots > 0
            THEN RoundRobinLoop([slots EXCEPT ![i].slots = @ - 1], i + 1,
                                n - 1,
                                reservations \o
                                    <<new_free(executor.executor_id)>>)
            ELSE RoundRobinLoop(slots, i + 1, n, reservations)
    ELSE [slots |-> slots, reservations |-> reservations]

\* as reserve_slots_round_robin, but the slots are left as they were
reserve_slots_round_robin_Kept(slots, n) ==
    [slots |-> slots,
     reservations |-> RoundRobinLoop(slots, 1, n, <<>>).reservations]

\* reserve_slots_round_robin(slots, n)
reserve_slots_round_robin(slots, n) == RoundRobinLoop(slots, 1, n, <<>>)

\* the function a TaskDistribution selects
Distribute(distribution, slots, n) ==
    IF distribution = "Bias" THEN reserve_slots_bias(slots, n)
    ELSE reserve_slots_round_robin(slots, n)

ReservationCall(op, n, distribution, reservations) ==
    [op |-> op, n |-> n, distribution |-> distribution,
     before |-> cluster_slots, reservations |-> reservations]

\* ClusterState::reserve_slots: up to num_slots, by the distribution given
ClusterReserveSlots(num_slots, distribution) ==
    LET r == Distribute(distribution, cluster_slots, num_slots)
    IN /\ cluster_slots' = r.slots
       /\ cret' = ReservationCall("reserve_slots", num_slots, distribution,
                                  r.reservations)
       /\ UNCHANGED notPoolVars

\* ClusterState::reserve_slots_exact: the reservations of the distribution
\* when they are num_slots, otherwise none and the slots stay as they were
ClusterReserveSlotsExact(num_slots, distribution) ==
    LET r == Distribute(distribution, cluster_slots, num_slots)
    IN /\ IF Len(r.reservations) = num_slots
          THEN /\ cluster_slots' = r.slots
               /\ cret' = ReservationCall("reserve_slots_exact", num_slots,
                                          distribution, r.reservations)
          ELSE /\ cluster_slots' = cluster_slots
               /\ cret' = ReservationCall("reserve_slots_exact", num_slots,
                                          distribution, <<>>)
       /\ UNCHANGED notPoolVars

NextDistribution ==
    \/ \E n \in 0..MaxRequest, distribution \in TaskDistribution :
          ClusterReserveSlots(n, distribution)
    \/ \E n \in 0..MaxRequest, distribution \in TaskDistribution :
          ClusterReserveSlotsExact(n, distribution)

SpecDistribution == InitDistribution /\ [][NextDistribution]_vars

\* ---------------------------------------------------------- observations
\* the ledger of e as a reader of Slots/<id> decodes it
Ledger(e) == decode_into(slotsKS[e])
Avail(e) == Ledger(e).available_task_slots
Total(e) == Ledger(e).total_task_slots
SumAvail(S) == SumOver([e \in Executors |-> Avail(e)], S)
SumTotal == SumOver([e \in Executors |-> Total(e)], Executors)
SumHeld == SumOver(held, Executors)

\* this step is the return of Ok(reservations) from c's reserve_slots call
ReserveReturned(c) ==
    /\ call[c].pc = "rs_put"
    /\ call'[c].pc = "idle"
    /\ ret'.op = "reserve"
    /\ ret'.status = "Ok"

\* this step is the return of Ok(()) from c's cancel_reservations call
CancelReturned(c) ==
    /\ call[c].pc = "cr_put"
    /\ call'[c].pc = "idle"
    /\ ret'.op = "cancel"
    /\ ret'.status = "Ok"

\* this step is the return of Ok(reservations) from c's register_executor
RegisterReturned(c) ==
    /\ call[c].pc = "reg_slots"
    /\ call'[c].pc = "idle"
    /\ ret'.op = "register"
    /\ ret'.status = "Ok"

\* ------------------------------------------------ the executor metadata
\* ExecutorManager::save_executor_metadata and get_executor_metadata
\* (ballista/rust/scheduler/src/state/executor_manager.rs) called on the
\* managers of two scheduler states that share the backend.

notMetaVars == <<now, heartbeatsKS, slotsKS, executor_metadata,
                 executors_heartbeat, lock, call, ret, held, pushFresh,
                 regs, listener, expiry, executorVars, lockVars, poolVars,
                 pollVars, jobVars>>

Managers == {"s1", "s2"}
Hosts == {"h1", "h2"}
Ports == {8080, 65535}

\* the ExecutorMetadata records a caller can save
Metadatas ==
    [id : Executors, host : Hosts, port : Ports, grpc_port : Ports,
     task_slots : 1..MaxSlots]

\* line 72, 80: each manager has its own executor_metadata map, empty when
\* the manager is built; nothing in the manager inserts into it
metadata_cache(manager) ==
    IF manager = "s1" THEN executor_metadata
    ELSE [e \in Executors |-> NoValue]

\* as get_executor_metadata, but the backend is not read
get_executor_metadata_Default(manager, executor_id) ==
    ExecutorMetadata(executor_id, 1)

\* line 222-238: the cached record if there is one, else the decoded
\* value of Executors/<id>
get_executor_metadata(manager, executor_id) ==
    IF metadata_cache(manager)[executor_id] # NoValue
    THEN metadata_cache(manager)[executor_id]
    ELSE decode_metadata(executorsKS[executor_id])

\* line 240-248: the encoded record is put under Executors/<metadata.id>
save_executor_metadata(manager, metadata) ==
    /\ executorsKS' =
           [executorsKS EXCEPT ![metadata.id] = encode_metadata(metadata)]
    /\ saved' = [saved EXCEPT ![metadata.id] =
                    [metadata |-> metadata,
                     again |-> saved[metadata.id] # NoValue]]
    /\ mret' = [op |-> "save", manager |-> manager, id |-> metadata.id,
                value |-> NoValue]
    /\ UNCHANGED notMetaVars

\* a call of get_executor_metadata returns
GetExecutorMetadata(manager, executor_id) ==
    /\ mret' = [op |-> "get", manager |-> manager, id |-> executor_id,
                value |-> get_executor_metadata(manager, executor_id)]
    /\ UNCHANGED <<notMetaVars, executorsKS, saved>>

NextMetadata ==
    \/ \E s \in Managers, m \in Metadatas : save_executor_metadata(s, m)
    \/ \E s \in Managers, e \in Executors : GetExecutorMetadata(s, e)

SpecMetadata == Init /\ [][NextMetadata]_vars

\* ------------------------------------------------------------ poll_work
\* SchedulerGrpc::poll_work (ballista/rust/scheduler/src/scheduler_server/
\* grpc.rs), one step per await, over the execution graph of one job.

notPollVars == <<now, slotsKS, executor_metadata, lock, call, ret, held,
                 pushFresh, regs, listener, expiry, executorVars, lockVars,
                 poolVars, metaVars, jobVars>>

TaskSchedulingPolicy == {"PullStaged", "PushStaged"}

InitServer ==
    /\ InitCore
    /\ cluster_slots = <<>>
    /\ cret = NoReservationCall
    /\ policy \in TaskSchedulingPolicy
    /\ harness = DefaultHarness

\* the ExecutorRegistration an executor sends with its requests
ExecutorRegistration(e) ==
    [id |-> e, host |-> "host", port |-> 8080, grpc_port |-> 9090,
     task_slots |-> TaskSlots(e)]

\* the requests of executor e: with or without metadata, asking for a task
\* or not, reporting some of the tasks it runs as successful
PollWorkParams(e) ==
    [metadata : {NoValue, ExecutorRegistration(e)},
     can_accept_task : BOOLEAN,
     task_status : SUBSET {t \in TaskIds :
                              graph.tasks[t] = Running(e)}]

\* line 78-90: the ExecutorMetadata built from the registration, its
\* ports narrowed to u16
PollMetadata(registration) ==
    [id |-> registration.id, host |-> registration.host,
     port |-> registration.port % (2^16),
     grpc_port |-> registration.grpc_port % (2^16),
     task_slots |-> registration.task_slots]

\* a stage runs when the stages it reads from are successful
StageSuccessful(g, stage) ==
    \A t \in TaskIds : t[1] = stage => g.tasks[t].state = "Completed"

StageRunning(g, stage) ==
    /\ g.status = "Running"
    /\ \A upstream \in Stages : upstream < stage => StageSuccessful(g, upstream)

\* the tasks pop_next_task can return
ReadyTasks(g) ==
    {t \in TaskIds : StageRunning(g, t[1]) /\ g.tasks[t] = Unscheduled}

\* ExecutionGraph::pop_next_task: the task becomes Running on the executor
pop_next_task(g, t, executor_id) ==
    [g EXCEPT !.tasks[t] = Running(executor_id)]

\* the path of the shuffle files a task reports
ShufflePath == "some/path"

\* TaskManager::update_task_statuses: a Successful status completes the
\* Running task it names with the executor and the path it reports; the
\* job is successful when every task of the final stage is completed
update_task_statuses(g, executor_id, task_status, path) ==
    LET tasks == [t \in TaskIds |->
                     IF t \in task_status /\ g.tasks[t].state = "Running"
                     THEN Completed(executor_id, path)
                     ELSE g.tasks[t]]
        done == \A t \in TaskIds :
                    t[1] = FinalStage => tasks[t].state = "Completed"
    IN [g EXCEPT !.status = IF g.status = "Running" /\ done
                            THEN "Successful" ELSE g.status,
                 !.tasks = tasks]

\* ExecutionGraph::apply_status for Failed statuses: a retryable failure
\* makes the Running task Unscheduled again and counts an attempt, until
\* the attempts exceed the bound; a failure that is not retryable, or is
\* out of attempts, is terminal: the task is Failed and so is the job
update_task_failures(g, task_status, retryable) ==
    LET hit == {t \in task_status : g.tasks[t].state = "Running"}
        attempts == [t \in TaskIds |->
                        IF t \in hit /\ retryable THEN g.attempts[t] + 1
                        ELSE g.attempts[t]]
        terminal == {t \in hit : ~retryable \/ attempts[t] > MaxAttempts}
        tasks == [t \in TaskIds |->
                     IF t \in terminal THEN FailedTask
                     ELSE IF t \in hit THEN Unscheduled
                     ELSE g.tasks[t]]
    IN [g EXCEPT !.status = IF g.status = "Running" /\ terminal # {}
                            THEN "Failed" ELSE g.status,
                 !.tasks = tasks,
                 !.attempts = attempts]

\* SchedulerState::submit_job: the graph of the job is built, its first
\* stage runs
submit_job ==
    /\ graph.status = None
    /\ graph' = [graph EXCEPT !.status = "Running"]
    /\ UNCHANGED <<notPollVars, executorsKS, heartbeatsKS,
                   executors_heartbeat, policy, poll, pret>>

\* what a poll_work call returns, with the metadata of its request
PollReturn(executor_id, status, metadata, next_task) ==
    [executor_id |-> executor_id, status |-> status,
     metadata |-> metadata, task |-> next_task]

\* as PollSupported, but poll_work is served under every policy
PollSupported_Any == TRUE

\* line 65: poll_work is served unless the policy is PushStaged
PollSupported == policy # "PushStaged"

\* line 65-70: the policy is PushStaged
PollRejectPolicy(e) ==
    /\ poll[e].pc = "idle"
    /\ ~PollSupported
    /\ \E request \in PollWorkParams(e) :
          pret' = PollReturn(e, "FailedPrecondition", request.metadata,
                             NoValue)
    /\ UNCHANGED <<notPollVars, executorsKS, heartbeatsKS,
                   executors_heartbeat, policy, graph, poll>>

\* line 160-163: the request carries no metadata
PollRejectMetadata(e) ==
    /\ poll[e].pc = "idle"
    /\ PollSupported
    /\ \E request \in PollWorkParams(e) :
          /\ request.metadata = NoValue
          /\ pret' = PollReturn(e, "InvalidArgument", NoValue, NoValue)
    /\ UNCHANGED <<notPollVars, executorsKS, heartbeatsKS,
                   executors_heartbeat, policy, graph, poll>>

\* line 72-109: the metadata and the heartbeat are built, the metadata is
\* put under Executors/<id>
PollSaveMetadata(e) ==
    /\ poll[e].pc = "idle"
    /\ PollSupported
    /\ \E request \in PollWorkParams(e) :
          /\ request.metadata # NoValue
          /\ LET metadata == PollMetadata(request.metadata)
             IN /\ executorsKS' =
                       [executorsKS EXCEPT
                           ![e] = encode_metadata(metadata)]
                /\ poll' = [poll EXCEPT ![e] =
                               [pc |-> "heartbeat", metadata |-> metadata,
                                can_accept_task |-> request.can_accept_task,
                                task_status |-> request.task_status,
                                ts |-> now]]
    /\ UNCHANGED <<notPollVars, heartbeatsKS, executors_heartbeat, policy,
                   graph, pret>>

\* line 111-119: save_executor_heartbeat
PollSaveHeartbeat(e) ==
    /\ poll[e].pc = "heartbeat"
    /\ save_executor_heartbeat(ExecutorHeartbeat(e, poll[e].ts))
    /\ poll' = [poll EXCEPT ![e].pc = "status"]
    /\ UNCHANGED <<notPollVars, executorsKS, policy, graph, pret>>

\* line 121-130: update_task_status applies the statuses of the request
PollUpdateTaskStatus(e) ==
    /\ poll[e].pc = "status"
    /\ graph' = update_task_statuses(graph, e, poll[e].task_status,
                                     ShufflePath)
    /\ poll' = [poll EXCEPT ![e].pc = "fill"]
    /\ UNCHANGED <<notPollVars, executorsKS, heartbeatsKS,
                   executors_heartbeat, policy, pret>>

\* as PollAsksTask, but a task is looked for in every call
PollAsksTask_Always(can_accept_task) == TRUE

\* line 133: a task is looked for if the executor can accept one
PollAsksTask(can_accept_task) == can_accept_task

\* line 133-159: fill_reservations with one free reservation of the
\* executor pops a ready task if there is one; the call returns it
PollReturnTask(e) ==
    /\ poll[e].pc = "fill"
    /\ IF PollAsksTask(poll[e].can_accept_task) /\ ReadyTasks(graph) # {}
       THEN \/ \E t \in ReadyTasks(graph), prepared \in BOOLEAN :
                  \* line 141-148: prepare_task_definition may fail
                  /\ graph' = pop_next_task(graph, t, e)
                  /\ pret' = PollReturn(e, "Ok", poll[e].metadata,
                                        IF prepared THEN [task |-> t]
                                        ELSE NoValue)
            \/ \* line 135-139, 152-154: fill_reservations failed
               /\ pret' = PollReturn(e, "Ok", poll[e].metadata, NoValue)
               /\ UNCHANGED graph
       ELSE /\ pret' = PollReturn(e, "Ok", poll[e].metadata, NoValue)
            /\ UNCHANGED graph
    /\ poll' = [poll EXCEPT ![e] = NotPolling]
    /\ UNCHANGED <<notPollVars, executorsKS, heartbeatsKS,
                   executors_heartbeat, policy>>

\* line 104-109, 114-119, 122-130: a save or the status update failed,
\* the call returns Status::internal
PollFail(e) ==
    /\ poll[e].pc \in {"heartbeat", "status"}
    /\ pret' = PollReturn(e, "Internal", poll[e].metadata, NoValue)
    /\ poll' = [poll EXCEPT ![e] = NotPolling]
    /\ UNCHANGED <<notPollVars, executorsKS, heartbeatsKS,
                   executors_heartbeat, policy, graph>>

\* the clock of the scheduler advances
PollTick ==
    /\ now < StartTime + MaxTicks * TickStep
    /\ now' = now + TickStep
    /\ UNCHANGED <<extVars, regs, executorsKS, heartbeatsKS, slotsKS,
                   executor_metadata, executors_heartbeat, lock, call, ret,
                   held, pushFresh>>

\* the steps of a poll_work call that was accepted
PollSteps ==
    \E e \in Executors :
        \/ PollSaveHeartbeat(e)
        \/ PollUpdateTaskStatus(e)
        \/ PollReturnTask(e)
        \/ PollFail(e)

NextPoll ==
    \/ submit_job
    \/ PollTick
    \/ \E e \in Executors :
          \/ PollRejectPolicy(e)
          \/ PollRejectMetadata(e)
          \/ PollSaveMetadata(e)
    \/ PollSteps

SpecPoll == InitServer /\ [][NextPoll]_vars

\* no poll_work call is in progress
PollAtRest == \A e \in Executors : poll[e].pc = "idle"

\* the handlers run one after the other
NextPollSerial ==
    \/ submit_job
    \/ PollTick
    \/ \E e \in Executors :
          \/ PollRejectPolicy(e)
          \/ PollRejectMetadata(e)
          \/ PollAtRest /\ PollSaveMetadata(e)
    \/ PollSteps

SpecPollSerial == InitServer /\ [][NextPollSerial]_vars

\* ------------------------------------------------------- running a job
\* test_pull_scheduling, test_push_scheduling, test_job_failure and
\* test_planning_failure (ballista/scheduler/src/scheduler_server/mod.rs)
\* with SchedulerTest::run and the VirtualTaskLauncher
\* (ballista/scheduler/src/test_utils.rs): a job of two stages.

notGraphVars == <<now, executorsKS, heartbeatsKS, slotsKS, executor_metadata,
                  executors_heartbeat, lock, call, ret, held, pushFresh,
                  regs, listener, executorVars, lockVars, cret,
                  metaVars, policy, poll, pret, harness>>

notJobVars == <<notGraphVars, expiry>>

\* SchedulerTest::new line 427-450: the executors are registered in the
\* order the HashMap yields them, none of their slots reserved
RegisteredSlots ==
    {[i \in 1..Len(order) |->
         AvailableTaskSlots(order[i], TaskSlots(order[i]))] :
        order \in Orders(Executors)}

InitJobs ==
    /\ InitCore
    /\ cluster_slots \in RegisteredSlots
    /\ cret = NoReservationCall
    /\ policy \in TaskSchedulingPolicy
    /\ harness = DefaultHarness

\* the executor the pull test pops tasks for
PullExecutor == "e1"

\* the path the default task runner reports: String::default()
DefaultPath == ""

\* the events of the query stage event loop
JobQueued == [event |-> "JobQueued"]
JobSubmitted == [event |-> "JobSubmitted"]
JobFinished == [event |-> "JobFinished"]
JobFailed == [event |-> "JobFailed"]
JobCancel == [event |-> "JobCancel"]
ExecutorLost(executor_id) ==
    [event |-> "ExecutorLost", executor_id |-> executor_id]
ReservationOffering(reservations) ==
    [event |-> "ReservationOffering", reservations |-> reservations]
TaskUpdating(executor_id, task_status, result) ==
    [event |-> "TaskUpdating", executor_id |-> executor_id,
     task_status |-> task_status, result |-> result]

\* the first of a set of tasks, by stage and partition
FirstTask(S) ==
    CHOOSE t \in S : \A u \in S :
        t[1] < u[1] \/ (t[1] = u[1] /\ t[2] <= u[2])

\* ExecutionGraph::output_locations: the locations of the completed tasks
\* of the final stage
output_locations(g) ==
    {[partition |-> t[2], executor_id |-> g.tasks[t].executor_id,
      path |-> g.tasks[t].path] :
        t \in {u \in TaskIds : /\ u[1] = FinalStage
                               /\ g.tasks[u].state = "Completed"}}

\* test_pull_scheduling line 409-414: state.submit_job
PullSubmit ==
    /\ policy = "PullStaged"
    /\ test.pc = "new"
    /\ graph' = [graph EXCEPT !.status = "Running",
                              !.keyspace = "ActiveJobs"]
    /\ test' = [test EXCEPT !.pc = "pop"]
    /\ UNCHANGED <<notJobVars, cluster_slots, events, metrics, channel>>

\* line 417-427, 466-468: pop_next_task for the executor, or leave the
\* loop when there is none
PullPop ==
    /\ test.pc = "pop"
    /\ IF ReadyTasks(graph) # {}
       THEN \E t \in ReadyTasks(graph) :
               /\ graph' = pop_next_task(graph, t, PullExecutor)
               /\ test' = [test EXCEPT !.pc = "update", !.task = t]
       ELSE /\ test' = [test EXCEPT !.pc = "done",
                                    !.status = graph.status]
            /\ UNCHANGED graph
    /\ UNCHANGED <<notJobVars, cluster_slots, events, metrics, channel>>

\* line 428-465: the task is reported successful with its path
PullUpdate ==
    /\ test.pc = "update"
    /\ graph' = update_task_statuses(graph, PullExecutor, {test.task},
                                     ShufflePath)
    /\ test' = [test EXCEPT !.pc = "pop", !.task = NoValue]
    /\ UNCHANGED <<notJobVars, cluster_slots, events, metrics, channel>>

\* one step of the program of test_pull_scheduling
PullStep == PullSubmit \/ PullPop \/ PullUpdate

\* SchedulerTest::run line 551-559: submit_job posts JobQueued
RunSubmit ==
    /\ policy = "PushStaged"
    /\ test.pc = "new"
    /\ events' = Append(events, JobQueued)
    /\ test' = [test EXCEPT !.pc = "await"]
    /\ UNCHANGED <<notJobVars, cluster_slots, graph, metrics, channel>>

\* SchedulerTest::run line 572-594: get_job_status is read; the loop ends
\* when it is Successful or Failed
RunGetJobStatus ==
    /\ test.pc = "await"
    /\ test' = [test EXCEPT
                    !.pc = IF graph.status \in {"Successful", "Failed"}
                           THEN "done" ELSE "await",
                    !.status = graph.status]
    /\ UNCHANGED <<notJobVars, cluster_slots, graph, events, metrics,
                   channel>>

\* one step of the program of a test that runs a job
RunStep == RunSubmit \/ RunGetJobStatus

\* ExecutorManager::is_dead_executor: the executor was removed
is_dead_executor(executor_id) == executor_id \in expiry.dead

\* as update_task_status, but the statuses of dead executors are posted
\* as well
update_task_status_Unchecked(executor_id, task_status, result) ==
    events' = Append(events, TaskUpdating(executor_id, task_status, result))

\* SchedulerServer::update_task_status line 211-232: the statuses of a
\* dead executor are ignored, those of any other are posted as one
\* TaskUpdating
update_task_status(executor_id, task_status, result) ==
    IF is_dead_executor(executor_id)
    THEN UNCHANGED events
    ELSE events' = Append(events,
                          TaskUpdating(executor_id, task_status, result))

\* SchedulerTest::run line 563-570: the spawned task receives the statuses
\* the launcher sent and gives them to update_task_status
ReceiveStatus ==
    /\ channel # <<>>
    /\ update_task_status(Head(channel).executor_id,
                          Head(channel).task_status, Head(channel).result)
    /\ channel' = Tail(channel)
    /\ UNCHANGED <<notJobVars, cluster_slots, graph, metrics, test>>

\* TaskManager::fill_reservations: every reservation gets the first ready
\* task, which becomes Running on its executor; the reservations that
\* find no task are unassigned
RECURSIVE FillReservations(_, _, _)
FillReservations(reservations, g, unassigned) ==
    IF reservations = <<>>
    THEN [graph |-> g, unassigned |-> unassigned]
    ELSE IF ReadyTasks(g) = {}
         THEN FillReservations(Tail(reservations), g,
                               Append(unassigned, Head(reservations)))
         ELSE FillReservations(
                  Tail(reservations),
                  pop_next_task(g, FirstTask(ReadyTasks(g)),
                                Head(reservations).executor_id),
                  unassigned)

\* cancel_reservations: the slots of the reservations go back
RECURSIVE ReturnSlots(_, _)
ReturnSlots(slots, reservations) ==
    IF reservations = <<>> THEN slots
    ELSE ReturnSlots(
             [i \in 1..Len(slots) |->
                 IF slots[i].executor_id = Head(reservations).executor_id
                 THEN [slots[i] EXCEPT !.slots = @ + 1]
                 ELSE slots[i]],
             Tail(reservations))

\* as RunnerResults, but every runner is the default task runner
RunnerResults_Default(runner) == {"Successful"}

\* the statuses a runner can give to the tasks of one launch
RunnerResults(runner) ==
    IF runner = "Any" THEN {"Successful", "Failed", "Retryable"}
    ELSE {runner}

\* as LaunchTasks, but the tasks are consumed and no status is ever sent
\* (BlackholeTaskLauncher)
LaunchTasks_Blackhole(order, before, after, result) == <<>>

\* VirtualTaskLauncher::launch_tasks, per executor in the order given: the
\* virtual executor runs the tasks assigned to it and the statuses its
\* runner gives are sent
RECURSIVE LaunchTasks(_, _, _, _)
LaunchTasks(order, before, after, result) ==
    IF order = <<>> THEN <<>>
    ELSE LET e == Head(order)
             launched == {t \in TaskIds : /\ before.tasks[t] # Running(e)
                                          /\ after.tasks[t] = Running(e)}
         IN (IF launched = {} THEN <<>>
             ELSE <<[executor_id |-> e, task_status |-> launched,
                     result |-> result]>>) \o
            LaunchTasks(Tail(order), before, after, result)

\* as Plannable, but the scan of every table succeeds
Plannable_Always(plan) == TRUE

\* ExplodingTableProvider::scan returns an error: the physical plan of a
\* query over the table cannot be made
Plannable(plan) == plan # "explode"

\* the event loop takes JobQueued: the job is recorded in ActiveJobs and
\* planned; the graph is built and the job runs, or planning failed and
\* JobFailed is posted
OnJobQueued ==
    /\ events # <<>> /\ Head(events) = JobQueued
    /\ IF ~Plannable(harness.plan)
       THEN /\ graph' = [graph EXCEPT !.keyspace = "ActiveJobs"]
            /\ events' = Append(Tail(events), JobFailed)
       ELSE /\ graph' = [graph EXCEPT !.status = "Running",
                                      !.keyspace = "ActiveJobs"]
            /\ events' = Append(Tail(events), JobSubmitted)
    /\ UNCHANGED <<notJobVars, cluster_slots, metrics, channel, test>>

\* JobSubmitted: the metric is recorded, slots are reserved for the tasks
\* that are ready and offered
OnJobSubmitted ==
    /\ events # <<>> /\ Head(events) = JobSubmitted
    /\ metrics' = metrics \cup {"Submitted"}
    /\ LET r == reserve_slots_bias(cluster_slots,
                                   Cardinality(ReadyTasks(graph)))
       IN /\ cluster_slots' = r.slots
          /\ events' = Append(Tail(events),
                              ReservationOffering(r.reservations))
    /\ UNCHANGED <<notJobVars, graph, channel, test>>

\* ReservationOffering: the reservations are filled, the unassigned ones
\* cancelled, the tasks launched; slots are reserved for the tasks that
\* are still pending and offered
OnReservationOffering ==
    /\ events # <<>> /\ Head(events).event = "ReservationOffering"
    /\ LET filled == FillReservations(Head(events).reservations, graph,
                                      <<>>)
           returned == ReturnSlots(cluster_slots, filled.unassigned)
           pending == Cardinality(ReadyTasks(filled.graph))
           r == reserve_slots_bias(returned, pending)
       IN /\ graph' = filled.graph
          /\ cluster_slots' = r.slots
          /\ \E order \in Orders(Executors),
                result \in RunnerResults(harness.runner) :
                channel' = channel \o LaunchTasks(order, graph,
                                                  filled.graph, result)
          /\ events' = Tail(events) \o
                       (IF r.reservations = <<>> THEN <<>>
                        ELSE <<ReservationOffering(r.reservations)>>)
    /\ UNCHANGED <<notJobVars, metrics, test>>

\* the events that follow a change of the graph: the slots of the tasks
\* that no longer run are offered again, JobFinished is posted when the
\* job became successful, JobFailed when it failed
GraphEvents(executor_id, before, after) ==
    LET ended == {t \in TaskIds : /\ before.tasks[t].state = "Running"
                                  /\ after.tasks[t].state # "Running"}
    IN (IF ended = {} THEN <<>>
        ELSE <<ReservationOffering(
                   Repeat(executor_id, Cardinality(ended)))>>) \o
       (IF before.status = "Running" /\ after.status = "Successful"
        THEN <<JobFinished>> ELSE <<>>) \o
       (IF before.status = "Running" /\ after.status = "Failed"
        THEN <<JobFailed>> ELSE <<>>)

\* TaskUpdating: the statuses are applied to the graph
OnTaskUpdating ==
    /\ events # <<>> /\ Head(events).event = "TaskUpdating"
    /\ LET executor_id == Head(events).executor_id
           g == IF Head(events).result = "Successful"
                THEN update_task_statuses(graph, executor_id,
                                          Head(events).task_status,
                                          DefaultPath)
                ELSE update_task_failures(graph, Head(events).task_status,
                                          Head(events).result = "Retryable")
       IN /\ graph' = g
          /\ events' = Tail(events) \o GraphEvents(executor_id, graph, g)
    /\ UNCHANGED <<notJobVars, cluster_slots, metrics, channel, test>>

\* JobFinished: the job moves to CompletedJobs, the metric is recorded
OnJobFinished ==
    /\ events # <<>> /\ Head(events) = JobFinished
    /\ graph' = [graph EXCEPT !.keyspace = "CompletedJobs"]
    /\ metrics' = metrics \cup {"Completed"}
    /\ events' = Tail(events)
    /\ UNCHANGED <<notJobVars, cluster_slots, channel, test>>

\* JobFailed: the job is Failed and moves to FailedJobs, the metric is
\* recorded
OnJobFailed ==
    /\ events # <<>> /\ Head(events) = JobFailed
    /\ graph' = [graph EXCEPT !.status = "Failed",
                              !.keyspace = "FailedJobs"]
    /\ metrics' = metrics \cup {"Failed"}
    /\ events' = Tail(events)
    /\ UNCHANGED <<notJobVars, cluster_slots, channel, test>>

\* one step of the task of the event loop while a job runs
EventLoopStep ==
    \/ OnJobQueued
    \/ OnJobSubmitted
    \/ OnReservationOffering
    \/ OnTaskUpdating
    \/ OnJobFinished

NextJobs ==
    \/ PullSubmit
    \/ PullPop
    \/ PullUpdate
    \/ RunSubmit
    \/ RunGetJobStatus
    \/ ReceiveStatus
    \/ OnJobQueued
    \/ OnJobSubmitted
    \/ OnReservationOffering
    \/ OnTaskUpdating
    \/ OnJobFinished

\* the test program, the event loop and the spawned receiver are tasks of
\* the runtime, which polls each of them while it can proceed
SpecJobs ==
    /\ InitJobs /\ [][NextJobs]_vars
    /\ WF_vars(PullStep) /\ WF_vars(RunStep)
    /\ WF_vars(EventLoopStep) /\ WF_vars(ReceiveStatus)

\* ------------------------------------------------- jobs that fail
\* test_job_failure and test_planning_failure: push scheduling, the
\* runner of the test and the plan it submits vary.

Runners == {"Successful", "Failed"}
LogicalPlans == {"test_plan", "explode"}

InitFailures ==
    /\ InitCore
    /\ cluster_slots \in RegisteredSlots
    /\ cret = NoReservationCall
    /\ policy = "PushStaged"
    /\ harness \in [runner : Runners, plan : LogicalPlans]

\* one step of the task of the event loop
FailureLoopStep == EventLoopStep \/ OnJobFailed

NextFailures ==
    \/ RunSubmit
    \/ RunGetJobStatus
    \/ ReceiveStatus
    \/ OnJobQueued
    \/ OnJobSubmitted
    \/ OnReservationOffering
    \/ OnTaskUpdating
    \/ OnJobFinished
    \/ OnJobFailed

SpecFailures ==
    /\ InitFailures /\ [][NextFailures]_vars
    /\ WF_vars(RunStep) /\ WF_vars(FailureLoopStep)
    /\ WF_vars(ReceiveStatus)

\* ------------------------------------------- the graph under any events
\* a job under push scheduling whose tasks succeed or fail in any way,
\* while the job may be cancelled (SchedulerTest::cancel) and executors
\* may be removed (SchedulerServer::remove_executor).

InitGraph ==
    /\ InitCore
    /\ cluster_slots \in RegisteredSlots
    /\ cret = NoReservationCall
    /\ policy = "PushStaged"
    /\ harness \in [runner : {"Any"}, plan : LogicalPlans]

\* SchedulerTest::cancel line 510-516: JobCancel is posted, while the job
\* is not yet in CompletedJobs or FailedJobs
Cancel ==
    /\ test.pc # "new"
    /\ graph.keyspace \in {None, "ActiveJobs"}
    /\ \A i \in 1..Len(events) : events[i] # JobCancel
    /\ events' = Append(events, JobCancel)
    /\ UNCHANGED <<notJobVars, cluster_slots, graph, metrics, channel,
                   test>>

\* SchedulerServer::remove_executor line 310-328: the executor manager
\* removes the executor, which is dead from then on and out of the slot
\* pool, and ExecutorLost is posted
RemoveExecutor(executor_id) ==
    /\ ~is_dead_executor(executor_id)
    /\ Cardinality(expiry.dead) < MaxLost
    /\ expiry' = [expiry EXCEPT !.dead = @ \cup {executor_id}]
    /\ cluster_slots' =
           SelectSeq(cluster_slots,
                     LAMBDA s : s.executor_id # executor_id)
    /\ events' = Append(events, ExecutorLost(executor_id))
    /\ UNCHANGED <<notGraphVars, graph, metrics, channel, test>>

\* JobCancel: an active job is marked Failed and moves to FailedJobs, the
\* Cancelled metric is recorded
OnJobCancel ==
    /\ events # <<>> /\ Head(events) = JobCancel
    /\ IF graph.keyspace = "ActiveJobs"
       THEN /\ graph' = [graph EXCEPT !.status = "Failed",
                                      !.keyspace = "FailedJobs"]
            /\ metrics' = metrics \cup {"Cancelled"}
       ELSE UNCHANGED <<graph, metrics>>
    /\ events' = Tail(events)
    /\ UNCHANGED <<notJobVars, cluster_slots, channel, test>>

\* ExecutorLost: the Running tasks of the executor fail, retryable
OnExecutorLost ==
    /\ events # <<>> /\ Head(events).event = "ExecutorLost"
    /\ LET executor_id == Head(events).executor_id
           g == update_task_failures(
                    graph,
                    {t \in TaskIds : graph.tasks[t] = Running(executor_id)},
                    TRUE)
       IN /\ graph' = g
          /\ events' = Tail(events) \o
                       (IF graph.status = "Running" /\ g.status = "Failed"
                        THEN <<JobFailed>> ELSE <<>>)
    /\ UNCHANGED <<notJobVars, cluster_slots, metrics, channel, test>>

NextGraph ==
    \/ RunSubmit
    \/ RunGetJobStatus
    \/ ReceiveStatus
    \/ Cancel
    \/ \E e \in Executors : RemoveExecutor(e)
    \/ OnJobQueued
    \/ OnJobSubmitted
    \/ OnReservationOffering
    \/ OnTaskUpdating
    \/ OnJobFinished
    \/ OnJobFailed
    \/ OnJobCancel
    \/ OnExecutorLost

SpecGraph == InitGraph /\ [][NextGraph]_vars

\* ------------------------------------- task statuses of lost executors
\* a job under push scheduling, run by SchedulerTest::run, while
\* executors may be removed.

InitStatus ==
    /\ InitCore
    /\ cluster_slots \in RegisteredSlots
    /\ cret = NoReservationCall
    /\ policy = "PushStaged"
    /\ harness \in [runner : Runners, plan : {"test_plan"}]

NextStatus ==
    \/ RunSubmit
    \/ RunGetJobStatus
    \/ ReceiveStatus
    \/ \E e \in Executors : RemoveExecutor(e)
    \/ OnJobQueued
    \/ OnJobSubmitted
    \/ OnReservationOffering
    \/ OnTaskUpdating
    \/ OnJobFinished
    \/ OnJobFailed
    \/ OnExecutorLost

SpecStatus == InitStatus /\ [][NextStatus]_vars

\* ------------------------------------------- the RegisterExecutor handler
\* SchedulerGrpc::register_executor (ballista/rust/scheduler/src/
\* scheduler_server/grpc.rs) over ExecutorManager::register_executor, one
\* step per await.

notHandlerVars == <<now, executorsKS, heartbeatsKS, slotsKS,
                    executor_metadata, executors_heartbeat, lock, held,
                    pushFresh, regs, listener, expiry, executorVars,
                    lockVars, poolVars, metaVars, pollVars, metrics,
                    channel, test, harness>>

\* SchedulerServerEvent::Offer
Offer(reservations) == [event |-> "Offer", reservations |-> reservations]

\* line 194-196: event_loop.get_sender() is Ok(Some(sender)); the server
\* has an event loop, started by init, exactly under push scheduling
SenderAvailable == policy = "PushStaged"

\* line 197-204, 210-216: the handler calls register_executor, with
\* reserve = true if it has a sender
HandlerRegister(c, e) == RegSaveMetadata(c, e, SenderAvailable)

\* line 200-204, 212-218: register_executor has put the ledger and
\* returned; with reserve = true the handler goes on to post the
\* reservations, otherwise it answers success
HandlerPutSlots(c) ==
    LET e == call[c].executor_id
        rs == RegisteredReservations(e, call[c].n, call[c].reserve)
    IN /\ call[c].pc = "reg_slots"
       /\ slotsKS' = [slotsKS EXCEPT ![e] =
                         RegisteredData(call[c].n, call[c].reserve)]
       /\ held' = [held EXCEPT ![e] = @ + Len(rs)]
       /\ pushFresh' = [pushFresh EXCEPT ![e] = call[c].reserve]
       /\ IF call[c].reserve
          THEN /\ call' = [call EXCEPT ![c].pc = "reg_post",
                                       ![c].reservations = rs]
               /\ ret' = Return("register", call[c].n, "Ok", rs)
          ELSE /\ call' = [call EXCEPT ![c] = Idle]
               /\ ret' = Return("RegisterExecutor", call[c].n, "Ok", <<>>)
       /\ UNCHANGED <<extVars, regs, now, executorsKS, heartbeatsKS,
                      executor_metadata, executors_heartbeat, lock>>

\* as HandlerPost, but the handler answers success without the post
HandlerPost_Drop(c) ==
    /\ call[c].pc = "reg_post"
    /\ call' = [call EXCEPT ![c] = Idle]
    /\ ret' = Return("RegisterExecutor", call[c].n, "Ok", <<>>)
    /\ UNCHANGED <<notHandlerVars, events>>

\* line 206-209, 220: post_event(Offer(reservations)) and the answer
\* success
HandlerPost(c) ==
    /\ call[c].pc = "reg_post"
    /\ events' = Append(events, Offer(call[c].reservations))
    /\ call' = [call EXCEPT ![c] = Idle]
    /\ ret' = Return("RegisterExecutor", call[c].n, "Ok", <<>>)
    /\ UNCHANGED notHandlerVars

\* line 205, 209, 217: register_executor or post_event returned Err, the
\* unwrap panics and the handler fails
HandlerFail(c) ==
    /\ call[c].pc \in {"reg_hb", "reg_slots", "reg_post"}
    /\ call' = [call EXCEPT ![c] = Idle]
    /\ ret' = Return("RegisterExecutor", call[c].n, "Err", <<>>)
    /\ UNCHANGED <<notHandlerVars, events>>

NextHandler ==
    \/ \E c \in Callers, e \in Executors : HandlerRegister(c, e)
    \/ \E c \in Callers :
          \/ RegSaveHeartbeat(c)
          \/ HandlerPutSlots(c)
          \/ HandlerPost(c)
          \/ HandlerFail(c)

SpecHandler == InitServer /\ [][NextHandler]_vars

\* ------------------------------------------------------------------ C1
\* parts of C1
C1_Conserved ==
    AtRest => \A e \in Executors : Avail(e) + held[e] = Total(e)

C1_TotalKept ==
    (\E c \in Callers : call[c].pc \in {"rs_put", "cr_put"}
                        /\ call'[c] # call[c])
        => SumTotal' = SumTotal

\* C1: once the executors are registered, whenever no reserve_slots or
\* cancel_reservations call is in progress every executor has
\* available_task_slots + outstanding reservations = total_task_slots, and
\* no step of a reserve_slots or cancel_reservations call changes the sum
\* of total_task_slots.
C1_SlotConservation == []C1_Conserved /\ [][C1_TotalKept]_vars

\* a cancel has returned while reservations of another executor are still
\* outstanding and slots are free
C1_Witness ==
    /\ ret.op = "cancel" /\ ret.status = "Ok" /\ ret.n >= 1
    /\ \E e \in Executors : held[e] >= 1
    /\ \E e \in Executors : Avail(e) >= 1

\* ------------------------------------------------------------------ C3
\* parts of C3
C3_Step ==
    \A c \in Callers : ReserveReturned(c) =>
        LET k == Len(ret'.reservations)
        IN /\ k <= Min(call[c].n, SumAvail(Executors))
           /\ SumAvail(Executors)' = SumAvail(Executors) - k
           /\ \A e \in Executors :
                Avail(e)' = Avail(e) - CountFor(ret'.reservations, e)

\* C3: a reserve_slots(n) that returns k reservations has k <= min(n, sum
\* of available_task_slots), lowers the sum of available_task_slots by
\* exactly k, and lowers each executor's available_task_slots by exactly
\* the number of returned reservations naming it.
C3_NoOverReservation == [][C3_Step]_vars

\* a reserve_slots has returned reservations of both executors
C3_Witness ==
    /\ ret.op = "reserve" /\ ret.status = "Ok"
    /\ \A e \in Executors : CountFor(ret.reservations, e) >= 1

\* ------------------------------------------------------------------ C4
\* parts of C4
C4_Step ==
    \A c \in Callers : ReserveReturned(c) =>
        Len(ret'.reservations) = Min(call[c].n, SumAvail(call[c].alive))

\* C4: reserve_slots(n) returns exactly min(n, sum of available_task_slots
\* over the executors alive at the call) reservations.
C4_AsManyAsPossible == [][C4_Step]_vars

\* a reserve_slots returned fewer reservations than asked for, at least
\* one, while an executor that is not alive keeps a free slot
C4_Witness ==
    /\ ret.op = "reserve" /\ ret.status = "Ok"
    /\ Len(ret.reservations) >= 1
    /\ Len(ret.reservations) < ret.n
    /\ \E e \in Executors :
          e \notin get_alive_executors_within_one_minute /\ Avail(e) >= 1

\* ------------------------------------------------------------------ C2
\* C2: in every state of the backend every stored ledger has
\* 0 <= available_task_slots <= total_task_slots.
C2_SlotBounds ==
    \A e \in Executors : 0 <= Avail(e) /\ Avail(e) <= Total(e)

\* ------------------------------------------------------------------ C5
\* parts of C5
C5_NoDoubleBooking == \A e \in Executors : held[e] <= Total(e)

C5_Exhausted ==
    \A c \in Callers :
        (ReserveReturned(c) /\ Len(ret'.reservations) < call[c].n)
            => \A e \in call[c].alive : Avail(e)' = 0

\* C5: with reserve_slots calls of several tasks in progress together no
\* slot is handed out twice - the outstanding reservations of an executor
\* never exceed its total_task_slots - and a call that returns fewer
\* reservations than it asked for leaves no free slot on any executor that
\* was alive at the call, so calls asking together for at least all free
\* slots receive exactly all of them.
C5_ConcurrentReserve == []C5_NoDoubleBooking /\ [][C5_Exhausted]_vars

\* every slot is reserved, by a call that got fewer than it asked for after
\* another call had reserved the others
C5_Witness ==
    /\ ret.op = "reserve" /\ ret.status = "Ok"
    /\ Len(ret.reservations) >= 1
    /\ Len(ret.reservations) < ret.n
    /\ SumHeld > Len(ret.reservations)
    /\ SumHeld = SumTotal
    /\ \A e \in Executors : ~pushFresh[e]

\* ------------------------------------------------------------------ C6
\* parts of C6
C6_Step ==
    /\ (ret'.op \in {"reserve", "cancel"} /\ ret'.status = "Err")
           => slotsKS' = slotsKS
    /\ \A c \in Callers :
          (call[c].pc = "idle" /\ call'[c].pc \in {"rs_put", "cr_put"})
              => slotsKS' = slotsKS
    /\ \A c \in Callers :
          (ReserveReturned(c) \/ CancelReturned(c))
              => \A e \in Executors :
                    slotsKS'[e] = IF call[c].txn_ops[e] # NoValue
                                  THEN call[c].txn_ops[e] ELSE slotsKS[e]

\* C6: a reserve_slots or cancel_reservations call that returns Err has
\* written no ledger, the reading part of a call writes no ledger, and a
\* call that returns Ok writes the ledgers of all the executors it touched
\* in one step.
C6_AllOrNothing == [][C6_Step]_vars

\* a reserve_slots that had taken slots of both executors returned Err
C6_Witness ==
    /\ ret.op = "reserve" /\ ret.status = "Err" /\ ret.n >= 2
    /\ \A e \in Executors : Avail(e) >= 1
    /\ \A e \in Executors : e \in get_alive_executors_within_one_minute

\* ------------------------------------------------------------------ C7
\* parts of C7
C7_CancelStep ==
    \A c \in Callers : CancelReturned(c) =>
        \A e \in Executors :
            Avail(e)' = Avail(e) + CountFor(call[c].reservations, e)

C7_Restored ==
    (AtRest /\ \A e \in Executors : held[e] = 0)
        => \A e \in Executors : Avail(e) = Total(e)

\* C7: a cancel_reservations that returns Ok raises each executor's
\* available_task_slots by exactly the number of cancelled reservations
\* naming it, and once every reservation has been cancelled every executor
\* has all its slots available again.
C7_RoundTrip == []C7_Restored /\ [][C7_CancelStep]_vars

\* the last outstanding reservations, two of them, have been cancelled
C7_Witness ==
    /\ ret.op = "cancel" /\ ret.status = "Ok" /\ ret.n >= 2
    /\ \A e \in Executors : held[e] = 0
    /\ SumAvail(Executors) >= 2

\* ------------------------------------------------------------------ C8
\* parts of C8
C8_Step ==
    /\ \A c \in Callers, e \in Executors :
          (RegisterReturned(c) /\ call[c].reserve
                               /\ call[c].executor_id = e) =>
             /\ Avail(e)' = 0
             /\ Len(ret'.reservations) = Total(e)'
             /\ Total(e)' = decode_metadata(executorsKS[e]).task_slots
             /\ \A i \in 1..Len(ret'.reservations) :
                   ret'.reservations[i] = [executor_id |-> e, job_id |-> None]
    /\ \A c \in Callers : ReserveReturned(c) =>
          \A e \in Executors :
              pushFresh[e] => CountFor(ret'.reservations, e) = 0

\* C8: register_executor with reserve = true stores the ledger with
\* available_task_slots = 0 and returns total_task_slots free reservations
\* that all name the executor; until one of them is cancelled no
\* reserve_slots returns a reservation naming the executor.
C8_RegisterReserve == [][C8_Step]_vars

\* an executor registered with reserve = true is alive, none of its
\* reservations is cancelled, and a reserve_slots(n >= 1) returned nothing
C8_Witness ==
    /\ ret.op = "reserve" /\ ret.status = "Ok" /\ ret.n >= 1
    /\ ret.reservations = <<>>
    /\ \E e \in Executors :
          /\ pushFresh[e]
          /\ held[e] >= 1
          /\ e \in get_alive_executors_within_one_minute

\* ------------------------------------------------------------------ C9
\* parts of C9
C9_Step ==
    /\ \A e \in Executors :
          executorsKS[e] # NoValue => executorsKS'[e] = executorsKS[e]
    /\ \A c \in Callers :
          (RegisterReturned(c) /\ slotsKS[call[c].executor_id] # NoValue) =>
              LET e == call[c].executor_id
                  total == decode_metadata(executorsKS[e]).task_slots
              IN IF call[c].reserve
                 THEN /\ slotsKS'[e] = ExecutorData(total, 0)
                      /\ Len(ret'.reservations) = total
                 ELSE /\ slotsKS'[e] = ExecutorData(total, total)
                      /\ ret'.reservations = <<>>

\* C9: registering an executor id that is registered already leaves the
\* stored metadata as it is and stores the ledger anew: available = total
\* and no reservation returned with reserve = false, available = 0 and
\* total reservations returned with reserve = true.
C9_ReRegistration == [][C9_Step]_vars

\* an executor whose slots were reserved has been registered again with
\* reserve = false
C9_Witness ==
    /\ ret.op = "register" /\ ret.status = "Ok" /\ ret.reservations = <<>>
    /\ \E e \in Executors :
          /\ held[e] >= 1
          /\ Avail(e) = Total(e)
          /\ Total(e) >= 1

\* ----------------------------------------------------------------- C10
\* parts of C10
C10_LockedWrite ==
    slotsKS' # slotsKS =>
        \E c \in Callers : lock = c /\ call'[c] # call[c]

\* the ledger of e as c's call in progress read it
ReadBy(c, e) ==
    LET ops == call[c].txn_ops
        k == CountFor(call[c].reservations, e)
    IN IF call[c].pc = "rs_put"
       THEN ExecutorData(ops[e].total_task_slots,
                         ops[e].available_task_slots + k)
       ELSE ExecutorData(ops[e].total_task_slots,
                         ops[e].available_task_slots - k)

C10_NoLostUpdate ==
    \A c \in Callers :
        (ReserveReturned(c) \/ CancelReturned(c)) =>
            \A e \in Executors :
                call[c].txn_ops[e] # NoValue => Ledger(e) = ReadBy(c, e)

\* C10: a ledger is written only by a task that holds the Slots lock, and
\* the ledgers that a reserve_slots or cancel_reservations call writes are
\* still as the call read them (no update is lost).
C10_LedgerGuarded == [][C10_LockedWrite /\ C10_NoLostUpdate]_vars

\* ------------------------------------------------------------------- C11
\* C11: the timestamp the cache holds for an executor never decreases,
\* whatever the interleaving of save_executor_heartbeat calls,
\* init_executor_heartbeats and the inserts of the listener task.
C11_HeartbeatMonotonic ==
    [][\A e \in Executors :
           executors_heartbeat[e] # NoValue =>
               /\ executors_heartbeat'[e] # NoValue
               /\ executors_heartbeat'[e].timestamp >=
                      executors_heartbeat[e].timestamp]_vars

\* ------------------------------------------------------------------- C14
\* parts of C14: the watch runs, no Put event waits for the listener task
\* and no save_executor_heartbeat is between its put and its insert
FeedDrained ==
    /\ listener.pc = "watching"
    /\ listener.events = <<>>
    /\ \A c \in Callers : listener.saving[c] = NoValue

\* C14: once init has completed and nothing is left to deliver, the
\* heartbeat the Heartbeats keyspace holds for an executor (the one no later
\* heartbeat replaced) has been in the cache.
C14_Reflected ==
    FeedDrained =>
        \A e \in Executors :
            heartbeatsKS[e] # NoValue => heartbeatsKS[e] \in listener.reflected

\* ------------------------------------------------------------------- C12
\* parts of C12: the executors whose cached heartbeat is less than the
\* liveness window old
WithinWindow ==
    {e \in Executors :
        /\ executors_heartbeat[e] # NoValue
        /\ now - executors_heartbeat[e].timestamp < LivenessWindow}

\* this step is c's reserve_slots call reading the alive set and the ledgers
ReserveStarted(c) ==
    /\ call[c].pc = "idle"
    /\ call'[c].pc = "rs_put"

C12_Step ==
    \A c \in Callers :
        /\ ReserveStarted(c) =>
               /\ call'[c].alive = WithinWindow
               /\ \A i \in 1..Len(call'[c].reservations) :
                      call'[c].reservations[i].executor_id \in WithinWindow
               /\ \A e \in Executors \ WithinWindow :
                      call'[c].txn_ops[e] = NoValue
               /\ executors_heartbeat' = executors_heartbeat
        /\ ReserveReturned(c) =>
               /\ \A i \in 1..Len(ret'.reservations) :
                      ret'.reservations[i].executor_id \in call[c].alive
               /\ \A e \in Executors \ call[c].alive :
                      slotsKS'[e] = slotsKS[e]

TimedOut(e) ==
    /\ executors_heartbeat[e] # NoValue
    /\ now - executors_heartbeat[e].timestamp >
           DEFAULT_EXECUTOR_TIMEOUT_SECONDS

\* the expiry task has removed e and is about to post its ExecutorLost
PostPending(e) ==
    /\ expiry.pc = "post"
    /\ Head(expiry.queue) = e

C13_Once ==
    \A e \in Executors :
        /\ expiry.lost[e] <= 1
        /\ expiry.lost[e] = 1 => e \in expiry.dead
        /\ (e \in expiry.dead /\ ~PostPending(e)) => expiry.lost[e] = 1

C13_Removed(e) == e \in expiry.dead /\ expiry.lost[e] = 1

CancelTaskReturned(part) ==
    /\ eret'.op = "cancel_task"
    /\ eret'.arg = part

C15_Step ==
    \A part \in Keys :
        CancelTaskReturned(part) =>
            /\ eret'.value =
                   (IF abort_handles[part] # NoValue THEN "true" ELSE "false")
            /\ eret'.value = "true" =>
                   /\ abort_handles'[part] = NoValue
                   /\ task'[abort_handles[part].task].aborted
            /\ eret'.value = "false" => task' = task
            /\ \A k \in Keys \ {part} : abort_handles'[k] = abort_handles[k]
            /\ \A t \in Tasks : task'[t].pc = task[t].pc
            /\ stage_metrics' = stage_metrics

\* C15: cancel_task returns true exactly when a handle is registered under
\* the key when it is called, and then has removed the handle and aborted
\* its task; otherwise it returns false and changes nothing, so a call that
\* has not yet registered its handle goes on to run.
C15_CancelTask == [][C15_Step]_vars

\* cancel_task has returned false for the key of a call that has made its
\* abortable task and not yet registered the handle
C15_Witness ==
    /\ eret.op = "cancel_task"
    /\ eret.value = "false"
    /\ \E t \in Tasks :
           /\ task[t].pc = "created"
           /\ task[t].key = eret.arg
           /\ ~task[t].aborted
    /\ \E t \in Tasks : task[t].aborted

\* ------------------------------------------------------------------- C16
\* C16: once cancel_task has aborted the task of a call whose shuffle write
\* never completes, the call eventually returns an error.
C16_CancelledReturns ==
    \A t \in Tasks :
        (task[t].aborted /\ task[t].endless) ~> (task[t].result = "Err")

\* an endless shuffle write was cancelled and its call has returned Err
C16_Witness ==
    \E t \in Tasks :
        /\ task[t].endless
        /\ task[t].aborted
        /\ task[t].pc = "returned"
        /\ task[t].result = "Err"

\* ------------------------------------------------------------------- C17
\* parts of C17: this step is the return of Ok(partitions) from call t
ShuffleWriteReturnedOk(t) ==
    /\ task[t].pc = "completed"
    /\ task'[t].result = "Ok"

C17_Step ==
    /\ \A t \in Tasks :
           ShuffleWriteReturnedOk(t) => abort_handles'[task[t].key] = NoValue
    /\ \A part \in Keys :
           (/\ eret.op = "execute_shuffle_write"
            /\ eret.value = "Ok"
            /\ task[eret.arg].key = part
            /\ CancelTaskReturned(part)) => eret'.value = "false"

\* C17: when execute_shuffle_write returns its partitions the handle of
\* its key is out of abort_handles, and a cancel_task for the key that
\* follows returns false.
C17_HandleRemoved == [][C17_Step]_vars

\* cancel_task has returned false for the key of a call that returned Ok
C17_Witness ==
    /\ eret.op = "cancel_task"
    /\ eret.value = "false"
    /\ \E t \in Tasks : task[t].result = "Ok" /\ task[t].key = eret.arg

\* ------------------------------------------------------------------- C18
\* parts of C18: call t is in flight
InFlight(t) == task[t].pc \in {"created", "running", "completed"}

\* C18: no two calls for one key are in flight together, and the task of a
\* call that is running and was not cancelled has its handle in the map.
C18_DuplicateRejected ==
    /\ \A t1, t2 \in Tasks :
           (t1 # t2 /\ InFlight(t1) /\ InFlight(t2)) =>
               task[t1].key # task[t2].key
    /\ \A t \in Tasks :
           (task[t].pc = "running" /\ ~task[t].aborted) =>
               abort_handles[task[t].key] = AbortHandle(t)

\* ------------------------------------------------------------------- C19
\* parts of C19: this step is call t being made
ShuffleWriteCalled(t) ==
    /\ task[t].pc = "new"
    /\ task'[t].pc # "new"

C19_Step ==
    \A t \in Tasks :
        (ShuffleWriteCalled(t) /\ task'[t].plan # "ShuffleWriterExec") =>
            /\ task'[t].pc = "returned"
            /\ task'[t].result = "Err"
            /\ eret'.value = "Err"
            /\ abort_handles' = abort_handles
            /\ stage_metrics' = stage_metrics

C19_Never ==
    \A t \in Tasks :
        task[t].plan \notin {None, "ShuffleWriterExec"} =>
            /\ ~task[t].started
            /\ t \notin stage_metrics
            /\ \A k \in Keys : abort_handles[k] # AbortHandle(t)
            /\ task[t].result = "Err"

\* C19: a call with a plan that is no ShuffleWriterExec returns an error,
\* and neither then nor later has a handle in abort_handles, a started
\* execution or recorded stage metrics.
C19_NotShuffleWriter == [][C19_Step /\ C19_Never']_vars

\* a call with another plan has returned Err beside a call whose shuffle
\* write is recorded
C19_Witness ==
    /\ \E t \in Tasks :
           /\ task[t].plan = "CoalesceBatchesExec"
           /\ task[t].result = "Err"
    /\ stage_metrics # {}

\* ------------------------------------------------------------------- C20
\* parts of C20: this step is a step of the RegisterExecutor handler, which
\* calls ExecutorManager::register_executor itself and posts the Offer
\* event only once that call has returned
RegisterExecutorHandlerStep(c) ==
    /\ \/ call[c].pc \in {"reg_hb", "reg_slots"}
       \/ call'[c].pc \in {"reg_hb", "reg_slots"}
    /\ call'[c] # call[c]

\* C20: no step of an RPC handler writes a slot ledger; the ledgers change
\* only in steps of the event loop.
C20_HandlersOnlyPost ==
    [][\A c \in Callers :
           RegisterExecutorHandlerStep(c) => slotsKS' = slotsKS]_vars

\* ------------------------------------------------------------------- C21
\* parts of C21: call a waits for a lock that call b holds
WaitsFor(a, b) ==
    /\ acquire[a].pc = "joining"
    /\ \E id \in acquire[a].ids : kv_locks[id] = b

\* C21: an acquire_locks call holds a lock only when it holds every lock
\* of its ids sorted before it, and no two calls wait for each other, each
\* holding a lock the other asked for and neither able to return.
C21_NoDeadlock ==
    /\ \A a \in Acquirers : \A id \in LocksHeld(a) :
           \A before \in acquire[a].ids : before < id => kv_locks[before] = a
    /\ \A a, b \in Acquirers : ~(a # b /\ WaitsFor(a, b) /\ WaitsFor(b, a))

\* ------------------------------------------------------------------- C22
\* C22: a reserve_slots(0) call returns no reservation, its transaction
\* holds no Put, and every ledger in the Slots keyspace is as it was.
C22_ZeroReserve ==
    [][\A c \in Callers :
           (ReserveReturned(c) /\ call[c].n = 0) =>
               /\ ret'.reservations = <<>>
               /\ call[c].txn_ops = NoOps
               /\ slotsKS' = slotsKS]_vars

\* ------------------------------------------------------- C23, C24, C25
\* the free slots of all executors of a pool
RECURSIVE SumSlots(_)
SumSlots(slots) ==
    IF slots = <<>> THEN 0 ELSE Head(slots).slots + SumSlots(Tail(slots))

\* the reservations of the call returned last that name the i-th executor
Given(i) == CountFor(cret.reservations, cret.before[i].executor_id)

\* the slots of a pool are those found by the last call less what it gave
SlotsDecremented ==
    /\ Len(cluster_slots) = Len(cret.before)
    /\ \A i \in 1..Len(cret.before) :
           /\ cluster_slots[i].executor_id = cret.before[i].executor_id
           /\ cluster_slots[i].slots = cret.before[i].slots - Given(i)

\* C23: reserve_slots_exact(n) returns no reservation and leaves the slots
\* as they were when fewer than n are free, and returns exactly n
\* reservations when at least n are free.
C23_ExactOrNone ==
    cret.op = "reserve_slots_exact" =>
        IF SumSlots(cret.before) < cret.n
        THEN cret.reservations = <<>> /\ cluster_slots = cret.before
        ELSE Len(cret.reservations) = cret.n /\ SlotsDecremented

\* C24: with Bias, reserve_slots returns min(n, free slots) reservations,
\* an executor is given a reservation only when every executor before it
\* is left without a free slot, and each executor's slots go down by what
\* it gave.
C24_Bias ==
    (cret.op = "reserve_slots" /\ cret.distribution = "Bias") =>
        /\ Len(cret.reservations) = Min(cret.n, SumSlots(cret.before))
        /\ \A i \in 1..Len(cret.before) :
               Given(i) > 0 =>
                   \A j \in 1..(i - 1) : cluster_slots[j].slots = 0
        /\ SlotsDecremented

\* a Bias call that emptied the first executor and took from the second
C24_Witness ==
    /\ cret.op = "reserve_slots"
    /\ cret.distribution = "Bias"
    /\ Len(cret.before) = 2
    /\ Given(1) = MaxSlots
    /\ Given(2) >= 1
    /\ cluster_slots[2].slots >= 1

\* C25: with RoundRobin, reserve_slots returns min(n, free slots)
\* reservations, and two executors that still have free slots were given
\* numbers of reservations that differ by at most one.
C25_RoundRobin ==
    (cret.op = "reserve_slots" /\ cret.distribution = "RoundRobin") =>
        /\ Len(cret.reservations) = Min(cret.n, SumSlots(cret.before))
        /\ \A i, j \in 1..Len(cret.before) :
               (cluster_slots[i].slots > 0 /\ cluster_slots[j].slots > 0) =>
                   Given(i) - Given(j) \in {-1, 0, 1}
        /\ SlotsDecremented

\* ------------------------------------------------------------------- C26
\* parts of C26: the position of an executor id in the order of the ids
IdRank(e) == IF e = "e1" THEN 1 ELSE 2

\* C26: when two alive executors have the same number of available slots,
\* reserve_slots takes from the one with the smaller id first: the other
\* is named in the reservations only when the first gave all it had.
C26_StableById ==
    [][\A c \in Callers :
           ReserveStarted(c) =>
               \A a, b \in WithinWindow :
                   (/\ IdRank(a) < IdRank(b)
                    /\ Avail(a) = Avail(b)
                    /\ CountFor(call'[c].reservations, b) > 0) =>
                       CountFor(call'[c].reservations, a) = Avail(a)]_vars

PollRejected ==
    /\ pret' # pret
    /\ pret'.status \in {"FailedPrecondition", "InvalidArgument"}

C28_Step ==
    /\ \A e \in Executors :
          poll'[e].pc # "idle" =>
              policy # "PushStaged" /\ poll'[e].metadata # NoValue
    /\ (pret' # pret /\ policy = "PushStaged") =>
          pret'.status = "FailedPrecondition"
    /\ (pret' # pret /\ policy # "PushStaged"
                     /\ pret'.metadata = NoValue) =>
          pret'.status = "InvalidArgument"
    /\ PollRejected =>
          UNCHANGED <<executorsKS, heartbeatsKS, executors_heartbeat,
                      graph, poll, saved>>

\* C28: under the PushStaged policy every poll_work returns
\* failed-precondition, under the other policy a poll_work without metadata
\* returns invalid-argument, no such call is carried further, and the step
\* that rejects leaves the metadata, the heartbeats and the tasks of the
\* graph as they were.
C28_Rejected == [][C28_Step]_vars

\* a request without metadata was rejected while a job runs and the
\* executor has a heartbeat from an earlier call
C28_Witness ==
    /\ pret.status = "InvalidArgument"
    /\ graph.status = "Running"
    /\ \E t \in TaskIds : graph.tasks[t].state = "Running"
    /\ heartbeatsKS[pret.executor_id] # NoValue

\* ------------------------------------------------------------------- C29
\* parts of C29: the poll_work call of e returns Ok in this step
PollAccepted(e) ==
    /\ poll[e].pc = "fill" /\ poll'[e].pc = "idle"
    /\ pret'.status = "Ok" /\ pret'.executor_id = e

\* the tasks that become Running in this step
Assigned ==
    {t \in TaskIds : /\ graph.tasks[t].state = "Unscheduled"
                     /\ graph'.tasks[t].state = "Running"}

C29_Step ==
    /\ \A e \in Executors :
          (poll[e].pc = "idle" /\ poll'[e].pc # "idle") => poll'[e].ts = now
    /\ \A e \in Executors :
          PollAccepted(e) =>
              /\ decode_metadata(executorsKS'[e]) = poll[e].metadata
              /\ heartbeatsKS'[e] = ExecutorHeartbeat(e, poll[e].ts)
              /\ executors_heartbeat'[e] = ExecutorHeartbeat(e, poll[e].ts)
              /\ ~poll[e].can_accept_task =>
                    pret'.task = NoValue /\ Assigned = {}
              /\ poll[e].can_accept_task =>
                    /\ Cardinality(Assigned) <= 1
                    /\ pret'.task # NoValue =>
                          /\ Assigned = {pret'.task.task}
                          /\ pret'.task.task \in ReadyTasks(graph)
                          /\ graph'.tasks[pret'.task.task] = Running(e)
                    /\ ReadyTasks(graph) = {} =>
                          pret'.task = NoValue /\ Assigned = {}
    /\ \A t \in Assigned :
          \E e \in Executors :
              /\ PollAccepted(e)
              /\ poll[e].can_accept_task
              /\ graph'.tasks[t].executor_id = e

\* C29: a poll_work that returns Ok has saved the metadata of its request
\* and a heartbeat with the time the call was received; without
\* can_accept_task it returns no task and no step of it assigns one; with
\* can_accept_task it returns at most one task, which was ready and now
\* runs on the executor, and none when no task is ready.
C29_Accepted == [][C29_Step]_vars

\* a poll_work returned a task of the final stage after the clock advanced
\* during the call
C29_Witness ==
    /\ pret.status = "Ok"
    /\ pret.task # NoValue
    /\ pret.task.task[1] = FinalStage
    /\ heartbeatsKS[pret.executor_id] # NoValue
    /\ heartbeatsKS[pret.executor_id].timestamp < now

\* ------------------------------------------------------------------- C30
\* parts of C30: the job is successful, with one output location per
\* partition of the final stage that carries the path the tasks report
JobSuccessful ==
    /\ graph.status = "Successful"
    /\ Cardinality(output_locations(graph)) = TargetPartitions
    /\ \A partition \in 1..TargetPartitions :
          \E location \in output_locations(graph) :
              /\ location.partition = partition
              /\ location.executor_id \in Executors
              /\ location.path = IF policy = "PullStaged" THEN ShufflePath
                                 ELSE DefaultPath

\* a task is completed by the executor it ran on
CompletedWhereRun ==
    \A t \in TaskIds :
        (graph.tasks[t].state = "Running"
             /\ graph'.tasks[t].state = "Completed") =>
            graph'.tasks[t].executor_id = graph.tasks[t].executor_id

\* C30: once the job is submitted it eventually is Successful, under pull
\* and under push scheduling; a successful job has exactly one output
\* location per partition of the final stage, with the path the task
\* reported and the executor the task ran on; under push scheduling the
\* Submitted and the Completed metric are eventually recorded.
C30_JobSucceeds ==
    /\ [](graph.status = "Successful" => JobSuccessful)
    /\ [][CompletedWhereRun]_vars
    /\ (test.pc # "new") ~>
           (/\ JobSuccessful
            /\ policy = "PushStaged" => metrics = {"Submitted", "Completed"})

\* the push test saw the job successful, its final stage completed by both
\* executors, and both metrics are recorded
C30_Witness ==
    /\ policy = "PushStaged"
    /\ test.pc = "done"
    /\ JobSuccessful
    /\ metrics = {"Submitted", "Completed"}
    /\ \E a, b \in output_locations(graph) : a.executor_id # b.executor_id

\* ------------------------------------------------------------------- C31
\* the test case of test_job_failure: the plan can be planned, the runner
\* reports every task Failed with retryable = false
FailingRun == harness = [runner |-> "Failed", plan |-> "test_plan"]

\* C31: when the tasks of the job report Failed with retryable = false,
\* the job is never Successful and no Completed metric is ever recorded;
\* once Failed it stays Failed; and after the job is submitted it ends up
\* Failed, seen as Failed by the test, with the Failed metric recorded.
C31_JobFails ==
    /\ [](FailingRun =>
             graph.status # "Successful" /\ "Completed" \notin metrics)
    /\ [][FailingRun /\ graph.status = "Failed" =>
             graph'.status = "Failed"]_vars
    /\ (FailingRun /\ test.pc # "new") ~>
           (/\ graph.status = "Failed"
            /\ test.pc = "done" /\ test.status = "Failed"
            /\ "Failed" \in metrics)

\* the failing run ended: the task of the first stage is Failed, the test
\* saw the job Failed, the Submitted and the Failed metric are recorded
C31_Witness ==
    /\ FailingRun
    /\ test.pc = "done" /\ test.status = "Failed"
    /\ graph.tasks[<<1, 1>>] = FailedTask
    /\ metrics = {"Submitted", "Failed"}

\* ------------------------------------------------------------------- C32
\* the test case of test_planning_failure: the plan reads the exploding
\* table
ExplodingRun == harness.plan = "explode"

\* the call of submit_job in run returns Ok: JobQueued is posted and the
\* test goes on to await the status of the job
SubmitSucceeds ==
    (ExplodingRun /\ test.pc = "new" /\ test'.pc # "new") =>
        /\ events' = Append(events, JobQueued)
        /\ test'.pc = "await"

\* C32: when physical planning of the queued job fails, submitting the
\* job still succeeds; the job never runs and no Submitted metric is ever
\* recorded; after the job is submitted it ends up Failed, seen as Failed
\* by the test, with the Failed metric recorded.
C32_PlanningFails ==
    /\ [][SubmitSucceeds]_vars
    /\ [](ExplodingRun =>
             /\ "Submitted" \notin metrics
             /\ graph.status \notin {"Running", "Successful"})
    /\ (ExplodingRun /\ test.pc # "new") ~>
           (/\ graph.status = "Failed"
            /\ test.pc = "done" /\ test.status = "Failed"
            /\ "Failed" \in metrics)

\* the run of the exploding plan ended: the test saw the job Failed, no
\* task was ever scheduled, the Failed metric alone is recorded
C32_Witness ==
    /\ ExplodingRun
    /\ test.pc = "done" /\ test.status = "Failed"
    /\ graph.keyspace = "FailedJobs"
    /\ \A t \in TaskIds : graph.tasks[t] = Unscheduled
    /\ metrics = {"Failed"}

\* ------------------------------------------------------------------- C33
\* parts of C33: a Completed partition stays Completed, a Successful stage
\* stays Successful, a Successful or Failed job keeps its status
PartitionsMonotone ==
    \A t \in TaskIds :
        graph.tasks[t].state = "Completed" =>
            graph'.tasks[t].state = "Completed"

StagesMonotone ==
    \A stage \in Stages :
        StageSuccessful(graph, stage) => StageSuccessful(graph', stage)

JobMonotone ==
    graph.status \in {"Successful", "Failed"} =>
        graph'.status = graph.status

\* C33: under any sequence of task status updates, executor losses and
\* job cancellations no step moves a Completed partition to another
\* state, makes a Successful stage not Successful, or changes the status
\* of a job that is Successful or Failed.
C33_GraphMonotone ==
    [][PartitionsMonotone /\ StagesMonotone /\ JobMonotone]_vars

\* ------------------------------------------------------------------- C34
\* C34: once an execute_shuffle_write call has returned, with a result or
\* with an error, the abort handle of its task is no longer in
\* abort_handles under its key.
C34_NoHandleAfterReturn ==
    \A t \in Tasks :
        task[t].pc = "returned" =>
            abort_handles[task[t].key] # AbortHandle(t)

\* ------------------------------------------------------------------- C35
\* parts of C35: while no register_executor call for it is in progress an
\* executor has its metadata, its heartbeat and its ledger stored, or no
\* metadata at all
RegisteredWhole(e) ==
    (~Registering(e) /\ executorsKS[e] # NoValue) =>
        /\ heartbeatsKS[e] # NoValue
        /\ executors_heartbeat[e] # NoValue
        /\ slotsKS[e] # NoValue

\* a reserve_slots call that found the executor alive finds its ledger
AliveWithLedger(e) ==
    \A c \in Callers :
        (call[c].pc = "rs_put" /\ e \in call[c].alive) =>
            slotsKS[e] # NoValue

\* C35: registration takes effect as a whole: a register_executor call
\* that returned Err has left nothing of the executor behind, and no
\* reserve_slots call finds an executor alive whose ledger is not stored.
C35_SingleTransaction ==
    \A e \in Executors : RegisteredWhole(e) /\ AliveWithLedger(e)

\* ------------------------------------------------------------------- C36
\* C36: every task that a poll_work call makes Running for the polling
\* executor is the task the call returns to that executor.
C36_NoTaskLost ==
    [][\A e \in Executors : \A t \in TaskIds :
           (/\ poll[e].pc = "fill"
            /\ graph.tasks[t] # Running(e)
            /\ graph'.tasks[t] = Running(e)) =>
               /\ pret'.executor_id = e
               /\ pret'.status = "Ok"
               /\ pret'.task = [task |-> t]]_vars

\* ------------------------------------------------------------------- C37
\* parts of C37: the step in which update_task_status is given the
\* statuses received first
StatusGiven == channel # <<>> /\ channel' = Tail(channel)

HandlerBegins(c) == call[c].pc = "idle" /\ call'[c].pc # "idle"

HandlerSucceeds(c) ==
    /\ call[c].pc # "idle" /\ call'[c].pc = "idle"
    /\ ret'.op = "RegisterExecutor" /\ ret'.status = "Ok"

C38_Step ==
    /\ policy = "PullStaged" => events' = events
    /\ \A c \in Callers :
          /\ HandlerBegins(c) =>
                 call'[c].reserve = (policy = "PushStaged")
          /\ HandlerSucceeds(c) =>
                 IF policy = "PushStaged"
                 THEN events' =
                          Append(events,
                                 Offer(Repeat(call[c].executor_id,
                                              TaskSlots(
                                                  call[c].executor_id))))
                 ELSE /\ ~call[c].reserve
                      /\ held' = held

C39_CachedAfterRead ==
    [][\A s \in Managers : \A e \in Executors :
           (/\ mret' # mret
            /\ mret'.op = "get" /\ mret'.manager = s /\ mret'.id = e
            /\ mret'.value # NoValue) =>
               metadata_cache(s)'[e] = mret'.value]_vars

\* ------------------------------------------------------------------- C40
\* C40: a call of reserve_slots_bias or reserve_slots_round_robin for n
\* slots returns at most n reservations, each naming an executor of the
\* sequence; the slots of every executor are those it had less the
\* reservations that name it, and are not below 0; an executor that no
\* reservation names has its slots as they were.
C40_Accounting ==
    cret.op = "reserve_slots" =>
        /\ Len(cret.reservations) <= cret.n
        /\ \A k \in 1..Len(cret.reservations) :
               \E i \in 1..Len(cret.before) :
                   cret.reservations[k].executor_id =
                       cret.before[i].executor_id
        /\ Len(cluster_slots) = Len(cret.before)
        /\ \A i \in 1..Len(cret.before) :
               /\ cluster_slots[i].executor_id = cret.before[i].executor_id
               /\ cluster_slots[i].slots =
                      cret.before[i].slots - Given(i)
               /\ cluster_slots[i].slots >= 0
               /\ Given(i) = 0 => cluster_slots[i] = cret.before[i]

\* a RoundRobin call passed an executor without a free slot, took one
\* slot from the next, which had more than one, and asked for more
C40_Witness ==
    /\ cret.op = "reserve_slots"
    /\ cret.distribution = "RoundRobin"
    /\ cret.n >= 2
    /\ Len(cret.before) = 2
    /\ cret.before[1].slots = 0
    /\ cret.before[2].slots = MaxSlots
    /\ Given(1) = 0 /\ Given(2) = 1
    /\ cluster_slots[2].slots = MaxSlots - 1
====
